---------------------------- MODULE Spec2Model ----------------------------
(***************************************************************************)
(* Pigtail: the device tracker and its observation pipeline                *)
(* (src/src/DeviceTracker.cpp, Track.h = src/unnamed/part_009,             *)
(* BleTracker name tables = src/src/MarkovNameGenerator.cpp).              *)
(*                                                                         *)
(* Representation                                                          *)
(*  - time is whole seconds since boot (now_s), uint32 in the code;        *)
(*  - a MAC address is a tuple of 6 bytes;                                 *)
(*  - a C string is a tuple of one-character strings;                      *)
(*  - EntityFlags is the set of the flag names that are set;               *)
(*  - a float RSSI / crowd value is kept in hundredths, a score in         *)
(*    hundredths of a point, a latitude/longitude (double) in              *)
(*    nano-degrees, a centroid weight in twentieths;                       *)
(*  - the table capacities, the queue length and the 16-bit index keep     *)
(*    their roles; the capacities are scaled down (see the bounds).        *)
(***************************************************************************)
EXTENDS Integers, Sequences, FiniteSets, TLC

(* ------------------------------ bounds -------------------------------- *)
\* Scaled table capacities (256 and 128 in the code) and queue length (64).
MAX_TRACKS == 2
MAX_ANCHORS == 1
OBS_Q_LEN == 2
\* Observations the radio sources produce in one run.
MaxObs == 2
\* Operations the UI task performs in one run.
MaxUiOps == 2

(* -------------------------- tuning constants -------------------------- *)
WINDOW_SEC == 10
ENV_WINDOW_SEC == 30
TRACK_IDLE_SEC_WIFI == 900
TRACK_IDLE_SEC_BLE == 1200
ANCHOR_IDLE_SEC == 600
RSSI_NEAR_DBM == -65
RSSI_MID_DBM == -80
FP_TOP_N == 8
FP_FRESH_SEC == 60
GPS_SEG_MIN_SEC == 10
\* 50.0 m, in centimetres
GPS_SEG_DIST_CM == 5000
\* the range of uint16_t g_next_index
INDEX_MOD == 65536
\* UIGrid passes maxOut = 256 = MAX_TRACKS; kept equal to the track capacity.
UI_MAX_OUT == MAX_TRACKS

(* ------------------------------ integers ------------------------------ *)
Abs(x) == IF x < 0 THEN -x ELSE x
Min2(a, b) == IF a < b THEN a ELSE b
Max2(a, b) == IF a > b THEN a ELSE b
\* a / b rounded to the nearest integer (b > 0), half away from zero
RoundDiv(a, b) == IF a >= 0 THEN (2 * a + b) \div (2 * b) ELSE -((2 * (-a) + b) \div (2 * b))
\* the largest value the model gives a wrapped uint32 difference
U32_HUGE == 2147483647
\* uint32 a - b: the difference when a >= b; when a < b the code wraps to
\* 2^32 - (b - a), which for the model's small times exceeds every threshold
\* and is represented by U32_HUGE.
SubU32(a, b) == IF a >= b THEN a - b ELSE U32_HUGE

(* ------------------------------ strings ------------------------------- *)
UpperChars == <<"A","B","C","D","E","F","G","H","I","J","K","L","M","N","O","P","Q","R","S","T","U","V","W","X","Y","Z">>
LowerChars == <<"a","b","c","d","e","f","g","h","i","j","k","l","m","n","o","p","q","r","s","t","u","v","w","x","y","z">>
\* ieq's folding of one character: 'A'..'Z' to 'a'..'z'
FoldChar(c) ==
  IF \E i \in 1..26 : UpperChars[i] = c
    THEN LowerChars[CHOOSE i \in 1..26 : UpperChars[i] = c]
    ELSE c
\* ieq(a, b): equal length and equal character by character after folding
ieq(a, b) ==
  /\ Len(a) = Len(b)
  /\ \A i \in 1..Len(a) : FoldChar(a[i]) = FoldChar(b[i])
\* strcmp(a, b) == 0
StrEq(a, b) == a = b

HexChars == <<"0","1","2","3","4","5","6","7","8","9","A","B","C","D","E","F">>
HexLower == <<"0","1","2","3","4","5","6","7","8","9","a","b","c","d","e","f">>
\* hexNibble: -1 when c is no hexadecimal digit
hexNibble(c) ==
  IF \E i \in 1..16 : HexChars[i] = c THEN (CHOOSE i \in 1..16 : HexChars[i] = c) - 1
  ELSE IF \E i \in 1..16 : HexLower[i] = c THEN (CHOOSE i \in 1..16 : HexLower[i] = c) - 1
  ELSE -1
\* "%02X" of one byte
HexByte(b) == <<HexChars[(b \div 16) + 1], HexChars[(b % 16) + 1]>>
\* macToString: "%02X:%02X:%02X:%02X:%02X:%02X"
macToString(mac) ==
  HexByte(mac[1]) \o <<":">> \o HexByte(mac[2]) \o <<":">> \o HexByte(mac[3]) \o <<":">>
    \o HexByte(mac[4]) \o <<":">> \o HexByte(mac[5]) \o <<":">> \o HexByte(mac[6])
\* The character parseMac reads at 0-based offset k: the terminating NUL when
\* k is the length of the string.
NUL == "\\0"
CharAt(s, k) == IF k < Len(s) THEN s[k + 1] ELSE NUL
\* parseMac reads 6 pairs of hex digits with ':' or '-' between them and
\* stops at the first bad character; it never looks past the 17th character.
ParseMacOk(s) ==
  \A i \in 0..5 :
    /\ hexNibble(CharAt(s, i * 3)) >= 0
    /\ hexNibble(CharAt(s, i * 3 + 1)) >= 0
    /\ (i < 5 => CharAt(s, i * 3 + 2) \in {":", "-"})
ParseMacValue(s) ==
  [i \in 1..6 |-> hexNibble(CharAt(s, (i - 1) * 3)) * 16 + hexNibble(CharAt(s, (i - 1) * 3 + 1))]


(* ------------------------- tracker name tables ------------------------ *)
TrackerTypes == {"Unknown", "AppleAirPods", "AppleAirTag", "AppleFindMy", "Chipolo",
                 "GoogleFindHub", "PebbleBee", "SmartThingsFind", "SmartThingsTracker", "Tile"}
GoogleMfrs == {"Unknown", "PebbleBee", "Chipolo", "Eufy", "Motorola", "Jio", "RollingSquare"}
SamsungSubtypes == {"Unknown", "SmartTag1", "SmartTag1Plus", "SmartTag2", "Solum"}

sUnknown == <<"U","n","k","n","o","w","n">>
sAirPods == <<"A","i","r","P","o","d","s">>
sAirTag == <<"A","i","r","T","a","g">>
sFindMy == <<"F","i","n","d"," ","M","y">>
sChipolo == <<"C","h","i","p","o","l","o">>
sFindHub == <<"F","i","n","d"," ","H","u","b">>
sPebbleBee == <<"P","e","b","b","l","e","B","e","e">>
sSTFind == <<"S","T"," ","F","i","n","d">>
sSTTracker == <<"S","T"," ","T","r","a","c","k","e","r">>
sFind == <<"F","i","n","d">>
sTracker == <<"T","r","a","c","k","e","r">>
sTile == <<"T","i","l","e">>
sEufy == <<"E","u","f","y">>
sMotorola == <<"M","o","t","o","r","o","l","a">>
sJio == <<"J","i","o">>
sRollingSquare == <<"R","o","l","l","i","n","g"," ","S","q","u","a","r","e">>
sSmartTag1 == <<"S","m","a","r","t","T","a","g"," ","1">>
sSmartTagPlus == <<"S","m","a","r","t","T","a","g","+">>
sSmartTag2 == <<"S","m","a","r","t","T","a","g"," ","2">>
sSolum == <<"S","o","l","u","m"," ","S","m","a","r","t","T","a","g">>
sWifiAp == <<"W","i","f","i","A","p">>
sWifiClient == <<"W","i","f","i","C","l","i","e","n","t">>
sBleAdv == <<"B","l","e","A","d","v">>

TrackerTypeName(t) ==
  CASE t = "Unknown" -> sUnknown
    [] t = "AppleAirPods" -> sAirPods
    [] t = "AppleAirTag" -> sAirTag
    [] t = "AppleFindMy" -> sFindMy
    [] t = "Chipolo" -> sChipolo
    [] t = "GoogleFindHub" -> sFindHub
    [] t = "PebbleBee" -> sPebbleBee
    [] t = "SmartThingsFind" -> sSTFind
    [] t = "SmartThingsTracker" -> sSTTracker
    [] t = "Tile" -> sTile
    [] OTHER -> sUnknown

\* Parse*: <<ok, out>>; out is Unknown when the string is empty or matches
\* no name (the function sets out before it looks at the string).
ParseTrackerType(s) ==
  IF Len(s) = 0 THEN <<FALSE, "Unknown">>
  ELSE IF ieq(s, sUnknown) THEN <<TRUE, "Unknown">>
  ELSE IF ieq(s, sAirPods) THEN <<TRUE, "AppleAirPods">>
  ELSE IF ieq(s, sAirTag) THEN <<TRUE, "AppleAirTag">>
  ELSE IF ieq(s, sFindMy) THEN <<TRUE, "AppleFindMy">>
  ELSE IF ieq(s, sChipolo) THEN <<TRUE, "Chipolo">>
  ELSE IF ieq(s, sFindHub) THEN <<TRUE, "GoogleFindHub">>
  ELSE IF ieq(s, sPebbleBee) THEN <<TRUE, "PebbleBee">>
  ELSE IF ieq(s, sFind) THEN <<TRUE, "SmartThingsFind">>
  ELSE IF ieq(s, sTracker) THEN <<TRUE, "SmartThingsTracker">>
  ELSE IF ieq(s, sTile) THEN <<TRUE, "Tile">>
  ELSE <<FALSE, "Unknown">>

GoogleMfrName(m) ==
  CASE m = "Unknown" -> sUnknown
    [] m = "PebbleBee" -> sPebbleBee
    [] m = "Chipolo" -> sChipolo
    [] m = "Eufy" -> sEufy
    [] m = "Motorola" -> sMotorola
    [] m = "Jio" -> sJio
    [] m = "RollingSquare" -> sRollingSquare
    [] OTHER -> sUnknown

ParseGoogleMfr(s) ==
  IF Len(s) = 0 THEN <<FALSE, "Unknown">>
  ELSE IF ieq(s, sUnknown) THEN <<TRUE, "Unknown">>
  ELSE IF ieq(s, sPebbleBee) THEN <<TRUE, "PebbleBee">>
  ELSE IF ieq(s, sChipolo) THEN <<TRUE, "Chipolo">>
  ELSE IF ieq(s, sEufy) THEN <<TRUE, "Eufy">>
  ELSE IF ieq(s, sMotorola) THEN <<TRUE, "Motorola">>
  ELSE IF ieq(s, sJio) THEN <<TRUE, "Jio">>
  ELSE IF ieq(s, sRollingSquare) THEN <<TRUE, "RollingSquare">>
  ELSE <<FALSE, "Unknown">>

SamsungSubtypeName(t) ==
  CASE t = "Unknown" -> sUnknown
    [] t = "SmartTag1" -> sSmartTag1
    [] t = "SmartTag1Plus" -> sSmartTagPlus
    [] t = "SmartTag2" -> sSmartTag2
    [] t = "Solum" -> sSolum
    [] OTHER -> sUnknown

ParseSamsungSubtype(s) ==
  IF Len(s) = 0 THEN <<FALSE, "Unknown">>
  ELSE IF ieq(s, sUnknown) THEN <<TRUE, "Unknown">>
  ELSE IF ieq(s, sSmartTag1) THEN <<TRUE, "SmartTag1">>
  ELSE IF ieq(s, sSmartTagPlus) THEN <<TRUE, "SmartTag1Plus">>
  ELSE IF ieq(s, sSmartTag2) THEN <<TRUE, "SmartTag2">>
  ELSE IF ieq(s, sSolum) THEN <<TRUE, "Solum">>
  ELSE <<FALSE, "Unknown">>

kindToString(k) ==
  CASE k = "WifiAp" -> sWifiAp
    [] k = "WifiClient" -> sWifiClient
    [] k = "BleAdv" -> sBleAdv
    [] OTHER -> sUnknown

\* parseKind: <<ok, kind>>
parseKind(s) ==
  IF StrEq(s, sWifiAp) THEN <<TRUE, "WifiAp">>
  ELSE IF StrEq(s, sWifiClient) THEN <<TRUE, "WifiClient">>
  ELSE IF StrEq(s, sBleAdv) THEN <<TRUE, "BleAdv">>
  ELSE <<FALSE, "None">>

(* ------------------------------ Track.h ------------------------------- *)
ZeroMac == <<0, 0, 0, 0, 0, 0>>
HasFlag(v, f) == f \in v
SetFlag(v, f) == v \cup {f}
ClearFlag(v, f) == v \ {f}

\* Track{}: the member initialisers of struct Track
TrackDefault ==
  [in_use |-> FALSE, kind |-> "None", addr |-> ZeroMac, flags |-> {}, index |-> 0,
   first_seen_s |-> 0, last_seen_s |-> 0,
   last_window |-> 0, seen_windows |-> 0, near_windows |-> 0,
   ema_rssi |-> -10000, ema_abs_dev |-> 0,
   last_segment_id |-> 0, env_hits |-> 0, crowd_ema |-> 0,
   last_geo_s |-> 0, last_lat |-> 0, last_lon |-> 0,
   tracker_type |-> "Unknown", tracker_google_mfr |-> "Unknown",
   tracker_samsung_subtype |-> "Unknown", tracker_confidence |-> 0]

\* Anchor{}: the member initialisers of struct Anchor
AnchorDefault ==
  [in_use |-> FALSE, addr |-> ZeroMac, flags |-> {}, index |-> 0,
   last_rssi |-> -100, last_seen_s |-> 0,
   last_geo_s |-> 0, last_lat |-> 0, last_lon |-> 0,
   best_rssi |-> -127, best_lat |-> 0, best_lon |-> 0,
   w_sum |-> 0, w_lat |-> 0, w_lon |-> 0]

\* EnvFingerprint{}: count = 0; the items are <<addr, bucket>> pairs
FpDefault == <<>>

TrackSlots == 1..MAX_TRACKS
AnchorSlots == 1..MAX_ANCHORS

\* the lowest slot of S (a non-empty set of slot numbers): the one a
\* for-loop from 0 upwards reaches first
FirstSlot(S) == CHOOSE i \in S : \A j \in S : i <= j

\* g_next_index++ on a uint16_t
NextIndexAfter(n) == (n + 1) % INDEX_MOD

(* ------------------------- find_or_alloc_* ---------------------------- *)
\* the slot is protected from eviction and expiry
\* an eviction scan that protects no slot
IsWatchedNever(e) == FALSE
IsWatched(e) == HasFlag(e.flags, "Watching")

\* an eviction scan that finds no victim
EvictVictimNone(tb, slots) == 0
\* an eviction scan that stops at the first in-use, non-watched slot
EvictVictimFirst(tb, slots) ==
  LET cand == {i \in slots : tb[i].in_use /\ ~IsWatched(tb[i])}
  IN IF cand = {} THEN 0 ELSE FirstSlot(cand)
\* The eviction victim among the slots of table tb: the in-use, non-watched
\* slot with the smallest last_seen_s, the first such slot on a tie; a slot
\* is only ever chosen when its last_seen_s is below the initial
\* "oldest = UINT32_MAX".  0 when there is none.
EvictVictim(tb, slots) ==
  LET cand == {i \in slots : tb[i].in_use /\ ~IsWatched(tb[i]) /\ tb[i].last_seen_s < U32_HUGE}
  IN IF cand = {} THEN 0
     ELSE FirstSlot({i \in cand : \A j \in cand : tb[i].last_seen_s <= tb[j].last_seen_s})

\* a scan that never finds the entity
TrackMatchesNone(tracks, kind, addr) == {}
\* the in-use slots a scan for (kind, addr) stops at: `in_use && kind == kind
\* && memcmp(addr, addr, 6) == 0`
TrackMatches(tracks, kind, addr) ==
  {i \in TrackSlots : tracks[i].in_use /\ tracks[i].kind = kind /\ tracks[i].addr = addr}

\* the fields find_or_alloc_track writes into a slot it hands out
NewTrack(kind, addr, index, ts_s, segment_id) ==
  [TrackDefault EXCEPT !.in_use = TRUE, !.kind = kind, !.addr = addr, !.flags = {},
                       !.index = index, !.first_seen_s = ts_s, !.last_seen_s = ts_s,
                       !.last_segment_id = segment_id, !.env_hits = 1]

\* find_or_alloc_track without `t = Track{};`: the fields it assigns are
\* written over the slot as it is
find_or_alloc_trackOver(tracks, next_index, segment_id, kind, addr, ts_s) ==
  LET match == TrackMatches(tracks, kind, addr)
      free == {i \in TrackSlots : ~tracks[i].in_use}
      ev == EvictVictim(tracks, TrackSlots)
      over(t) == [t EXCEPT !.in_use = TRUE, !.kind = kind, !.addr = addr, !.flags = {},
                           !.index = next_index, !.first_seen_s = ts_s, !.last_seen_s = ts_s,
                           !.last_segment_id = segment_id, !.env_hits = 1]
  IN IF match # {}
       THEN [slot |-> FirstSlot(match), how |-> "found", tracks |-> tracks, next_index |-> next_index]
     ELSE IF free # {}
       THEN [slot |-> FirstSlot(free), how |-> "free",
             tracks |-> [tracks EXCEPT ![FirstSlot(free)] = over(@)],
             next_index |-> NextIndexAfter(next_index)]
     ELSE IF ev = 0
       THEN [slot |-> 0, how |-> "fail", tracks |-> tracks, next_index |-> next_index]
     ELSE [slot |-> ev, how |-> "evict",
           tracks |-> [tracks EXCEPT ![ev] = over(@)],
           next_index |-> NextIndexAfter(next_index)]
\* find_or_alloc_track: [slot, how, tracks, next_index]; slot = 0 is nullptr
find_or_alloc_track(tracks, next_index, segment_id, kind, addr, ts_s) ==
  LET match == TrackMatches(tracks, kind, addr)
      free == {i \in TrackSlots : ~tracks[i].in_use}
      ev == EvictVictim(tracks, TrackSlots)
      fresh == NewTrack(kind, addr, next_index, ts_s, segment_id)
  IN IF match # {}
       THEN [slot |-> FirstSlot(match), how |-> "found", tracks |-> tracks, next_index |-> next_index]
     ELSE IF free # {}
       THEN [slot |-> FirstSlot(free), how |-> "free",
             tracks |-> [tracks EXCEPT ![FirstSlot(free)] = fresh],
             next_index |-> NextIndexAfter(next_index)]
     ELSE IF ev = 0
       THEN [slot |-> 0, how |-> "fail", tracks |-> tracks, next_index |-> next_index]
     ELSE [slot |-> ev, how |-> "evict",
           tracks |-> [tracks EXCEPT ![ev] = fresh],
           next_index |-> NextIndexAfter(next_index)]

NewAnchor(bssid, index, ts_s) ==
  [AnchorDefault EXCEPT !.in_use = TRUE, !.addr = bssid, !.flags = {}, !.index = index,
                        !.last_seen_s = ts_s, !.last_rssi = -100]

\* find_or_alloc_anchor: [slot, how, anchors, next_index]; slot = 0 is nullptr
find_or_alloc_anchor(anchors, next_index, bssid, ts_s) ==
  LET match == {i \in AnchorSlots : anchors[i].in_use /\ anchors[i].addr = bssid}
      free == {i \in AnchorSlots : ~anchors[i].in_use}
      ev == EvictVictim(anchors, AnchorSlots)
      fresh == NewAnchor(bssid, next_index, ts_s)
  IN IF match # {}
       THEN [slot |-> FirstSlot(match), how |-> "found", anchors |-> anchors, next_index |-> next_index]
     ELSE IF free # {}
       THEN [slot |-> FirstSlot(free), how |-> "free",
             anchors |-> [anchors EXCEPT ![FirstSlot(free)] = fresh],
             next_index |-> NextIndexAfter(next_index)]
     ELSE IF ev = 0
       THEN [slot |-> 0, how |-> "fail", anchors |-> anchors, next_index |-> next_index]
     ELSE [slot |-> ev, how |-> "evict",
           anchors |-> [anchors EXCEPT ![ev] = fresh],
           next_index |-> NextIndexAfter(next_index)]

(* ----------------------- update_track_from_obs ------------------------ *)
\* (1 - 0.2) * ema + 0.2 * x, in hundredths
Ema02(ema, x) == RoundDiv(4 * ema + x, 5)
\* (1 - 0.1) * ema + 0.1 * x, in hundredths
Ema01(ema, x) == RoundDiv(9 * ema + x, 10)

\* env_hits counted on every observation
update_track_from_obsEvery(t, rssi_dbm, ts_s, window_unique_hits, segment_id) ==
  LET window == ts_s \div WINDOW_SEC
      newWin == t.last_window # window
      t1 == [t EXCEPT !.last_seen_s = ts_s]
      t2 == IF newWin
              THEN [t1 EXCEPT !.last_window = window,
                              !.seen_windows = @ + 1,
                              !.near_windows = IF rssi_dbm >= RSSI_NEAR_DBM THEN @ + 1 ELSE @,
                              !.crowd_ema = Ema01(@, 100 * window_unique_hits)]
              ELSE t1
      prev == t.ema_rssi
      dev == Abs(100 * rssi_dbm - prev)
      t3 == [t2 EXCEPT !.ema_rssi = Ema02(@, 100 * rssi_dbm),
                       !.ema_abs_dev = Ema02(@, dev)]
  IN [t3 EXCEPT !.last_segment_id = segment_id, !.env_hits = @ + 1]
update_track_from_obs(t, rssi_dbm, ts_s, window_unique_hits, segment_id) ==
  LET window == ts_s \div WINDOW_SEC
      newWin == t.last_window # window
      t1 == [t EXCEPT !.last_seen_s = ts_s]
      t2 == IF newWin
              THEN [t1 EXCEPT !.last_window = window,
                              !.seen_windows = @ + 1,
                              !.near_windows = IF rssi_dbm >= RSSI_NEAR_DBM THEN @ + 1 ELSE @,
                              !.crowd_ema = Ema01(@, 100 * window_unique_hits)]
              ELSE t1
      prev == t.ema_rssi
      dev == Abs(100 * rssi_dbm - prev)
      t3 == [t2 EXCEPT !.ema_rssi = Ema02(@, 100 * rssi_dbm),
                       !.ema_abs_dev = Ema02(@, dev)]
  IN IF t3.last_segment_id # segment_id
       THEN [t3 EXCEPT !.last_segment_id = segment_id, !.env_hits = @ + 1]
       ELSE t3

(* --------------------------- segmentation ----------------------------- *)
rssi_bucket(rssi_dbm) ==
  IF rssi_dbm >= RSSI_NEAR_DBM THEN 2
  ELSE IF rssi_dbm >= RSSI_MID_DBM THEN 1
  ELSE 0

\* The slots of S ordered by last_rssi, strongest first (std::sort with
\* a.rssi > b.rssi; slots of equal rssi are put in slot order here).
RECURSIVE SlotsByRssi(_, _)
SlotsByRssi(anchors, S) ==
  IF S = {} THEN <<>>
  ELSE LET best == FirstSlot({i \in S : \A j \in S : anchors[i].last_rssi >= anchors[j].last_rssi})
       IN <<best>> \o SlotsByRssi(anchors, S \ {best})

\* build_fingerprint: the FP_TOP_N strongest anchors seen in the last 60 s
build_fingerprint(anchors, ts_s) ==
  LET fresh == {i \in AnchorSlots : anchors[i].in_use
                                    /\ ~(SubU32(ts_s, anchors[i].last_seen_s) > FP_FRESH_SEC)}
      order == SlotsByRssi(anchors, fresh)
      count == Min2(Len(order), FP_TOP_N)
  IN IF count = 0 THEN FpDefault
     ELSE [k \in 1..count |-> <<anchors[order[k]].addr, rssi_bucket(anchors[order[k]].last_rssi)>>]

\* fp_similarity in 1/10000: Jaccard of the address sets plus 0.25 per shared
\* address with the same bucket, over the union size; 1.0 when both are empty
fp_similarity(a, b) ==
  LET inA(addr) == \E i \in 1..Len(a) : a[i][1] = addr
      uni == Len(a) + Cardinality({j \in 1..Len(b) : ~inA(b[j][1])})
      \* find_bucket returns the first item of b with the address
      hit(i) == {j \in 1..Len(b) : b[j][1] = a[i][1]}
      inter == Cardinality({i \in 1..Len(a) : hit(i) # {}})
      bonus == Cardinality({i \in 1..Len(a) : hit(i) # {} /\ b[FirstSlot(hit(i))][2] = a[i][2]})
  IN IF uni = 0 THEN 10000
     ELSE Min2(10000, Max2(0, (10000 * inter + 2500 * bonus) \div uni))
FP_SIMILARITY_MIN == 5000

\* haversine_m(lat1, lon1, lat2, lon2) squared, in cm^2.  The model's fixes
\* lie within a few hundred metres of latitude 0, where the great-circle
\* distance is the planar one: one degree is 111194.93 m on both axes.
\* the same with the Earth radius given in kilometres
DegToCmKm(nano) == (((Abs(nano) \div 100) * 111195) \div 100000) \div 1000
DegToCm(nano) == ((Abs(nano) \div 100) * 111195) \div 100000
haversine_sq(lat1, lon1, lat2, lon2) ==
  DegToCm(lat2 - lat1) * DegToCm(lat2 - lat1) + DegToCm(lon2 - lon1) * DegToCm(lon2 - lon1)

\* the fingerprint fallback of maybe_advance_segment (lines 428-444)
\* run whether or not a fix is valid, and GNSS mode never
maybe_advance_segmentFp(sg, gps, anchors, ts_s) ==
  IF sg.last_env_tick_s = 0
    THEN [sg EXCEPT !.last_env_tick_s = ts_s, !.last_fp = build_fingerprint(anchors, ts_s)]
  ELSE IF SubU32(ts_s, sg.last_env_tick_s) < ENV_WINDOW_SEC
    THEN sg
  ELSE LET fp == build_fingerprint(anchors, ts_s)
           advance == fp_similarity(fp, sg.last_fp) < FP_SIMILARITY_MIN
       IN [sg EXCEPT !.last_env_tick_s = ts_s,
                     !.segment_id = IF advance THEN @ + 1 ELSE @,
                     !.move_segments = IF advance THEN @ + 1 ELSE @,
                     !.last_fp = fp]

\* maybe_advance_segment(ts_s) on the segmentation state sg and the GNSS
\* fix gps, with the anchor table for the fingerprint; returns the new sg.
maybe_advance_segment(sg, gps, anchors, ts_s) ==
  IF gps.valid
    THEN IF ~sg.gps_anchor_valid
           THEN [sg EXCEPT !.gps_anchor_valid = TRUE, !.gps_anchor_lat = gps.lat,
                           !.gps_anchor_lon = gps.lon, !.last_gps_seg_s = ts_s]
         ELSE IF SubU32(ts_s, sg.last_gps_seg_s) >= GPS_SEG_MIN_SEC
                 /\ haversine_sq(sg.gps_anchor_lat, sg.gps_anchor_lon, gps.lat, gps.lon)
                      >= GPS_SEG_DIST_CM * GPS_SEG_DIST_CM
           THEN [sg EXCEPT !.segment_id = @ + 1, !.move_segments = @ + 1,
                           !.gps_anchor_lat = gps.lat, !.gps_anchor_lon = gps.lon,
                           !.last_gps_seg_s = ts_s]
         ELSE sg
  ELSE IF sg.last_env_tick_s = 0
    THEN [sg EXCEPT !.last_env_tick_s = ts_s, !.last_fp = build_fingerprint(anchors, ts_s)]
  ELSE IF SubU32(ts_s, sg.last_env_tick_s) < ENV_WINDOW_SEC
    THEN sg
  ELSE LET fp == build_fingerprint(anchors, ts_s)
           advance == fp_similarity(fp, sg.last_fp) < FP_SIMILARITY_MIN
       IN [sg EXCEPT !.last_env_tick_s = ts_s,
                     !.segment_id = IF advance THEN @ + 1 ELSE @,
                     !.move_segments = IF advance THEN @ + 1 ELSE @,
                     !.last_fp = fp]

\* the initial values of the file-scope segmentation variables
SegDefault ==
  [segment_id |-> 1, move_segments |-> 0, last_env_tick_s |-> 0, last_fp |-> FpDefault,
   gps_anchor_valid |-> FALSE, gps_anchor_lat |-> 0, gps_anchor_lon |-> 0, last_gps_seg_s |-> 0]

(* ---------------------------- expire_tables --------------------------- *)
\* one limit for both kinds of track
TrackIdleLimitWifi(kind) == TRACK_IDLE_SEC_WIFI
TrackIdleLimit(kind) == IF kind = "WifiClient" THEN TRACK_IDLE_SEC_WIFI ELSE TRACK_IDLE_SEC_BLE

\* the slot is skipped by expire_tables
ExpireExempt(e) == HasFlag(e.flags, "Watching")

expire_tracks(tracks, ts_s) ==
  [i \in TrackSlots |->
     IF tracks[i].in_use /\ ~ExpireExempt(tracks[i])
        /\ SubU32(ts_s, tracks[i].last_seen_s) > TrackIdleLimit(tracks[i].kind)
       THEN [tracks[i] EXCEPT !.in_use = FALSE]
       ELSE tracks[i]]

expire_anchors(anchors, ts_s) ==
  [i \in AnchorSlots |->
     IF anchors[i].in_use /\ ~ExpireExempt(anchors[i])
        /\ SubU32(ts_s, anchors[i].last_seen_s) > ANCHOR_IDLE_SEC
       THEN [anchors[i] EXCEPT !.in_use = FALSE]
       ELSE anchors[i]]

(* ------------------------- process_observation ------------------------ *)
\* lines 489-494, before the lock is taken: the crowd window counter,
\* <<g_current_window, g_window_unique_hits>>
crowd_update(cur_window, hits, ts_s) ==
  LET window == ts_s \div WINDOW_SEC
  IN IF cur_window # window THEN <<window, 1>> ELSE <<cur_window, hits + 1>>

stamp_last_geo(e, ts_s, gps_lat, gps_lon) ==
  [e EXCEPT !.flags = SetFlag(@, "HasGeo"), !.last_geo_s = ts_s,
            !.last_lat = gps_lat, !.last_lon = gps_lon]

\* 1 + 9 * clamp01((rssi + 95) / 60), in twentieths
geo_weight_from_rssi(rssi_dbm) == 20 + Min2(180, Max2(0, 3 * (rssi_dbm + 95)))

\* the classifier outputs of the observation written over the track's
merge_trackerLast(t, obs) ==
  [t EXCEPT !.tracker_type = obs.tracker_type,
            !.tracker_google_mfr = obs.tracker_google_mfr,
            !.tracker_samsung_subtype = obs.tracker_samsung_subtype,
            !.tracker_confidence = obs.tracker_confidence]

\* the BleAdv case's merge of the classifier outputs into the track
merge_tracker(t, obs) ==
  [t EXCEPT !.tracker_type = IF obs.tracker_type # "Unknown" THEN obs.tracker_type ELSE @,
            !.tracker_google_mfr =
               IF obs.tracker_google_mfr # "Unknown" THEN obs.tracker_google_mfr ELSE @,
            !.tracker_samsung_subtype =
               IF obs.tracker_samsung_subtype # "Unknown" THEN obs.tracker_samsung_subtype ELSE @,
            !.tracker_confidence = Max2(@, obs.tracker_confidence)]

\* the best pass replaced by every observation at least as strong
update_anchor_from_obsLast(a, obs, gps) ==
  LET a1 == [a EXCEPT !.last_seen_s = obs.ts_s, !.last_rssi = obs.rssi_dbm]
      hadGeo == HasFlag(a.flags, "HasGeo")
      a2 == stamp_last_geo(a1, obs.ts_s, gps.lat, gps.lon)
      a3 == IF ~hadGeo \/ obs.rssi_dbm >= a.best_rssi
              THEN [a2 EXCEPT !.best_rssi = obs.rssi_dbm, !.best_lat = gps.lat, !.best_lon = gps.lon]
              ELSE a2
      w == geo_weight_from_rssi(obs.rssi_dbm)
  IN IF gps.valid
       THEN [a3 EXCEPT !.w_sum = @ + w, !.w_lat = @ + w * gps.lat, !.w_lon = @ + w * gps.lon]
       ELSE a1

\* the anchor case after find_or_alloc_anchor succeeded
update_anchor_from_obs(a, obs, gps) ==
  LET a1 == [a EXCEPT !.last_seen_s = obs.ts_s, !.last_rssi = obs.rssi_dbm]
      hadGeo == HasFlag(a.flags, "HasGeo")
      a2 == stamp_last_geo(a1, obs.ts_s, gps.lat, gps.lon)
      a3 == IF ~hadGeo \/ obs.rssi_dbm > a.best_rssi
              THEN [a2 EXCEPT !.best_rssi = obs.rssi_dbm, !.best_lat = gps.lat, !.best_lon = gps.lon]
              ELSE a2
      w == geo_weight_from_rssi(obs.rssi_dbm)
  IN IF gps.valid
       THEN [a3 EXCEPT !.w_sum = @ + w, !.w_lat = @ + w * gps.lat, !.w_lon = @ + w * gps.lon]
       ELSE a1

\* lines 496-580, under g_lock: [tracks, anchors, next_index, how, slot]
apply_observation(tracks, anchors, next_index, segment_id, hits, gps, obs) ==
  IF obs.kind \in {"WifiProbeReq", "BleAdv"}
    THEN LET tk == IF obs.kind = "BleAdv" THEN "BleAdv" ELSE "WifiClient"
             r == find_or_alloc_track(tracks, next_index, segment_id, tk, obs.addr, obs.ts_s)
             t1 == update_track_from_obs(r.tracks[r.slot], obs.rssi_dbm, obs.ts_s, hits, segment_id)
             t2 == IF gps.valid THEN stamp_last_geo(t1, obs.ts_s, gps.lat, gps.lon) ELSE t1
             t3 == IF obs.kind = "BleAdv" THEN merge_tracker(t2, obs) ELSE t2
         IN IF r.slot = 0
              THEN [tracks |-> tracks, anchors |-> anchors, next_index |-> next_index,
                    how |-> "fail", slot |-> 0]
              ELSE [tracks |-> [r.tracks EXCEPT ![r.slot] = t3], anchors |-> anchors,
                    next_index |-> r.next_index, how |-> r.how, slot |-> r.slot]
    ELSE LET r == find_or_alloc_anchor(anchors, next_index, obs.addr, obs.ts_s)
         IN IF r.slot = 0
              THEN [tracks |-> tracks, anchors |-> anchors, next_index |-> next_index,
                    how |-> "fail", slot |-> 0]
              ELSE [tracks |-> tracks,
                    anchors |-> [r.anchors EXCEPT ![r.slot] = update_anchor_from_obs(@, obs, gps)],
                    next_index |-> r.next_index, how |-> r.how, slot |-> r.slot]

(* ----------------------------- score_track ---------------------------- *)
\* clamp01(log1pf(T_min) / log1pf(30)) in thousandths, T_min = age_s / 60:
\* the value at the largest tabulated age not above age_s.
LogRatio(age_s) ==
  IF age_s >= 1800 THEN 1000
  ELSE IF age_s >= 1200 THEN 887
  ELSE IF age_s >= 900 THEN 807
  ELSE IF age_s >= 600 THEN 698
  ELSE IF age_s >= 300 THEN 522
  ELSE IF age_s >= 120 THEN 320
  ELSE IF age_s >= 60 THEN 202
  ELSE IF age_s >= 30 THEN 118
  ELSE IF age_s >= 10 THEN 45
  ELSE IF age_s >= 1 THEN 5
  ELSE 0

Clamp(x, lo, hi) == IF x < lo THEN lo ELSE IF x > hi THEN hi ELSE x

\* the sum returned as it is, without `if (S < 0) S = 0; if (S > 100) S = 100;`
score_trackNoClamp(t, ratio, move_segments) ==
  LET age == SubU32(t.last_seen_s, t.first_seen_s)
      P == 3 * LogRatio(age)
      f_near == IF t.seen_windows > 0 THEN (1000 * t.near_windows) \div t.seen_windows ELSE 0
      stability == Clamp(1000 - t.ema_abs_dev, 0, 1000)
      R == (5 * Clamp((7 * f_near + 3 * stability) \div 10, 0, 1000)) \div 2
      coverage == Clamp((1000 * t.env_hits) \div Max2(1, move_segments), 0, 1000)
      M == (7 * coverage) \div 2
      crowd_norm == Clamp(((t.crowd_ema - 500) * 10) \div 35, 0, 1000)
      C == -((5 * crowd_norm) \div 2)
      I == -(2 * Clamp(ratio, 0, 1000))
  IN P + R + M + C + I
\* score_track in hundredths of a point; ratio is stationary_ratio in
\* thousandths, move_segments is g_move_segments
score_track(t, ratio, move_segments) ==
  LET age == SubU32(t.last_seen_s, t.first_seen_s)
      P == 3 * LogRatio(age)
      f_near == IF t.seen_windows > 0 THEN (1000 * t.near_windows) \div t.seen_windows ELSE 0
      stability == Clamp(1000 - t.ema_abs_dev, 0, 1000)
      R == (5 * Clamp((7 * f_near + 3 * stability) \div 10, 0, 1000)) \div 2
      coverage == Clamp((1000 * t.env_hits) \div Max2(1, move_segments), 0, 1000)
      M == (7 * coverage) \div 2
      crowd_norm == Clamp(((t.crowd_ema - 500) * 10) \div 35, 0, 1000)
      C == -((5 * crowd_norm) \div 2)
      I == -(2 * Clamp(ratio, 0, 1000))
  IN Clamp(P + R + M + C + I, 0, 10000)

(* ---------------------------- buildSnapshot --------------------------- *)
\* lroundf(ema_rssi)
RoundRssi(ema) == RoundDiv(ema, 100)

\* 3.0, the weight sum from which the centroid is displayed, in twentieths
W_SUM_MIN == 60
\* the coordinates shown and saved for an anchor that has geo: the weighted
\* centroid when it has enough weight, else the best pass
AnchorGeo(a) ==
  IF a.w_sum >= W_SUM_MIN
    THEN [lat |-> RoundDiv(a.w_lat, a.w_sum), lon |-> RoundDiv(a.w_lon, a.w_sum)]
    ELSE [lat |-> a.best_lat, lon |-> a.best_lon]

TrackView(t, ratio, move_segments) ==
  [kind |-> t.kind, index |-> t.index, addr |-> t.addr, flags |-> t.flags,
   rssi |-> RoundRssi(t.ema_rssi), score |-> score_track(t, ratio, move_segments),
   lat |-> IF HasFlag(t.flags, "HasGeo") THEN t.last_lat ELSE 0,
   lon |-> IF HasFlag(t.flags, "HasGeo") THEN t.last_lon ELSE 0]

AnchorView(a) ==
  [kind |-> "WifiAp", index |-> a.index, addr |-> a.addr, flags |-> a.flags,
   rssi |-> a.last_rssi, score |-> 0,
   lat |-> IF HasFlag(a.flags, "HasGeo") THEN AnchorGeo(a).lat ELSE 0,
   lon |-> IF HasFlag(a.flags, "HasGeo") THEN AnchorGeo(a).lon ELSE 0]

\* the in-use slots of a table in slot order, as a sequence of slot numbers
RECURSIVE InUseSlots(_, _, _)
InUseSlots(tb, i, n) ==
  IF i > n THEN <<>>
  ELSE (IF tb[i].in_use THEN <<i>> ELSE <<>>) \o InUseSlots(tb, i + 1, n)

\* the first n elements of seq (all of it when it is shorter)
Take(seq, n) == SubSeq(seq, 1, Min2(n, Len(seq)))

\* the rows collected under the lock: tracks first, then anchors, each loop
\* stopping once maxOut rows are filled
CollectRows(tracks, anchors, maxOut, ratio, move_segments) ==
  LET ts == Take(InUseSlots(tracks, 1, MAX_TRACKS), maxOut)
      as == Take(InUseSlots(anchors, 1, MAX_ANCHORS), maxOut - Len(ts))
  IN [k \in 1..Len(ts) |-> TrackView(tracks[ts[k]], ratio, move_segments)]
       \o [k \in 1..Len(as) |-> AnchorView(anchors[as[k]])]

\* a comparator that looks at the index alone
RowBeforeByIndex(a, b) == a.index < b.index
\* the comparator of std::sort in buildSnapshot: a goes before b
RowBefore(a, b) ==
  LET a_watched == HasFlag(a.flags, "Watching")
      b_watched == HasFlag(b.flags, "Watching")
  IN IF a_watched # b_watched THEN a_watched
     ELSE IF a.score # b.score THEN a.score > b.score
     ELSE IF a.rssi # b.rssi THEN a.rssi > b.rssi
     ELSE a.index < b.index

\* std::sort(out, out + n, RowBefore), as an insertion sort
RECURSIVE InsertRow(_, _)
InsertRow(sorted, e) ==
  IF sorted = <<>> THEN <<e>>
  ELSE IF RowBefore(e, Head(sorted)) THEN <<e>> \o sorted
  ELSE <<Head(sorted)>> \o InsertRow(Tail(sorted), e)
RECURSIVE SortRows(_)
SortRows(rows) ==
  IF rows = <<>> THEN <<>>
  ELSE InsertRow(SortRows(Tail(rows)), Head(rows))

buildSnapshot(tracks, anchors, maxOut, ratio, move_segments) ==
  SortRows(CollectRows(tracks, anchors, maxOut, ratio, move_segments))

(* -------------------------------- reset -------------------------------- *)
\* the slot survives reset()
ResetKeeps(e) == HasFlag(e.flags, "Watching")

reset_tracks(tracks) ==
  [i \in TrackSlots |->
     IF tracks[i].in_use /\ ~ResetKeeps(tracks[i]) THEN TrackDefault ELSE tracks[i]]
reset_anchors(anchors) ==
  [i \in AnchorSlots |->
     IF anchors[i].in_use /\ ~ResetKeeps(anchors[i]) THEN AnchorDefault ELSE anchors[i]]

\* the largest index of an in-use slot of either table, 0 when none is in use
MaxInUseIndex(tracks, anchors) ==
  LET S == {tracks[i].index : i \in {j \in TrackSlots : tracks[j].in_use}}
             \cup {anchors[i].index : i \in {j \in AnchorSlots : anchors[j].in_use}}
  IN IF S = {} THEN 0 ELSE CHOOSE m \in S : \A x \in S : x <= m

\* g_next_index = (uint16_t)(maxIdx + 1); if (g_next_index == 0) g_next_index = 1;
RecomputeNextIndex(tracks, anchors) ==
  LET n == (MaxInUseIndex(tracks, anchors) + 1) % INDEX_MOD
  IN IF n = 0 THEN 1 ELSE n

(* ------------------------------ watchlist ------------------------------ *)
\* An optional member of a JSON item: <<>> when absent, <<v>> when present.
None == <<>>
Some(v) == <<v>>
IsSome(o) == Len(o) = 1
Val(o) == o[1]

\* Print::print(double, 8) of a coordinate in nano-degrees: the decimal text
\* with 8 fractional digits, given as its sign and its digits (the value in
\* units of 1e-8 after adding the rounding 0.5e-8 and truncating).
\* a rendering that loses the sign
PrintCoordUnsigned(nano) == [neg |-> FALSE, e8 |-> (Abs(nano) + 5) \div 10]
PrintCoord(nano) == [neg |-> nano < 0, e8 |-> (Abs(nano) + 5) \div 10]
\* the double the JSON parser reads back from that text, in nano-degrees
ReadCoord(txt) == IF txt.neg THEN -(txt.e8 * 10) ELSE txt.e8 * 10

\* a JSON object without members; object is FALSE for an array element that
\* is not an object (v.as<JsonObject>() is null)
ItemDefault ==
  [object |-> TRUE, kind |-> None, mac |-> None, lat |-> None, lon |-> None,
   tracker_type |-> None, tracker_google_mfr |-> None,
   tracker_samsung_subtype |-> None, tracker_confidence |-> None]

\* the item writeWatchlist emits for a watched anchor
AnchorItem(a) ==
  LET hasGeo == HasFlag(a.flags, "HasGeo")
  IN [ItemDefault EXCEPT !.kind = Some(sWifiAp), !.mac = Some(macToString(a.addr)),
                         !.lat = IF hasGeo THEN Some(PrintCoord(AnchorGeo(a).lat)) ELSE None,
                         !.lon = IF hasGeo THEN Some(PrintCoord(AnchorGeo(a).lon)) ELSE None]

\* the item writeWatchlist emits for a watched track
TrackItem(t) ==
  LET hasGeo == HasFlag(t.flags, "HasGeo")
  IN [ItemDefault EXCEPT
        !.kind = Some(IF t.kind = "BleAdv" THEN sBleAdv ELSE sWifiClient),
        !.mac = Some(macToString(t.addr)),
        !.lat = IF hasGeo THEN Some(PrintCoord(t.last_lat)) ELSE None,
        !.lon = IF hasGeo THEN Some(PrintCoord(t.last_lon)) ELSE None,
        !.tracker_type =
           IF t.tracker_type # "Unknown" THEN Some(TrackerTypeName(t.tracker_type)) ELSE None,
        !.tracker_google_mfr =
           IF t.tracker_google_mfr # "Unknown" THEN Some(GoogleMfrName(t.tracker_google_mfr)) ELSE None,
        !.tracker_samsung_subtype =
           IF t.tracker_samsung_subtype # "Unknown"
             THEN Some(SamsungSubtypeName(t.tracker_samsung_subtype)) ELSE None,
        !.tracker_confidence =
           IF t.tracker_confidence # 0 THEN Some(t.tracker_confidence) ELSE None]

\* the slots writeWatchlist emits: in use and Watching, in slot order
RECURSIVE WatchedSlots(_, _, _)
WatchedSlots(tb, i, n) ==
  IF i > n THEN <<>>
  ELSE (IF tb[i].in_use /\ HasFlag(tb[i].flags, "Watching") THEN <<i>> ELSE <<>>)
         \o WatchedSlots(tb, i + 1, n)

\* writeWatchlist: the items array of the document, anchors before tracks
writeWatchlist(tracks, anchors) ==
  LET as == WatchedSlots(anchors, 1, MAX_ANCHORS)
      ts == WatchedSlots(tracks, 1, MAX_TRACKS)
  IN [k \in 1..Len(as) |-> AnchorItem(anchors[as[k]])]
       \o [k \in 1..Len(ts) |-> TrackItem(tracks[ts[k]])]

\* the tracker members of an item applied to track t (lines 1245-1272)
restore_tracker(t, it) ==
  LET tt == IF IsSome(it.tracker_type) THEN ParseTrackerType(Val(it.tracker_type)) ELSE <<FALSE, "Unknown">>
      gm == IF IsSome(it.tracker_google_mfr) THEN ParseGoogleMfr(Val(it.tracker_google_mfr)) ELSE <<FALSE, "Unknown">>
      ss == IF IsSome(it.tracker_samsung_subtype)
              THEN ParseSamsungSubtype(Val(it.tracker_samsung_subtype)) ELSE <<FALSE, "Unknown">>
  IN [t EXCEPT !.tracker_type = IF tt[1] THEN tt[2] ELSE @,
               !.tracker_google_mfr = IF gm[1] THEN gm[2] ELSE @,
               !.tracker_samsung_subtype = IF ss[1] THEN ss[2] ELSE @,
               !.tracker_confidence =
                  IF IsSome(it.tracker_confidence) THEN Val(it.tracker_confidence) ELSE @,
               !.flags = SetFlag(@, "Watching")]

\* an item applied through find_or_alloc_anchor and find_or_alloc_track,
\* which evict when the table is full
apply_itemAlloc(st, it, ts) ==
  LET skip == [st EXCEPT !.skipped = @ + 1]
      ek == parseKind(Val(it.kind))
      mac == ParseMacValue(Val(it.mac))
  IN IF ~it.object THEN skip
     ELSE IF ~IsSome(it.kind) \/ ~IsSome(it.mac) THEN skip
     ELSE IF ~ek[1] \/ ~ParseMacOk(Val(it.mac)) THEN skip
     ELSE IF ek[2] = "WifiAp"
       THEN LET r == find_or_alloc_anchor(st.anchors, st.next_index, mac, ts)
            IN IF r.slot = 0 THEN skip
               ELSE [st EXCEPT !.anchors = [r.anchors EXCEPT ![r.slot].flags = SetFlag(@, "Watching")],
                               !.next_index = r.next_index, !.applied = @ + 1]
     ELSE LET r == find_or_alloc_track(st.tracks, st.next_index, 1, ek[2], mac, ts)
          IN IF r.slot = 0 THEN skip
             ELSE [st EXCEPT !.tracks = [r.tracks EXCEPT ![r.slot] = restore_tracker(@, it)],
                             !.next_index = r.next_index, !.applied = @ + 1]

\* one item of the array applied to the tables st = [tracks, anchors,
\* next_index, applied, skipped] at time ts (lines 1148-1275)
apply_item(st, it, ts) ==
  LET skip == [st EXCEPT !.skipped = @ + 1]
      ek == parseKind(Val(it.kind))
      mac == ParseMacValue(Val(it.mac))
      geo == IsSome(it.lat) /\ IsSome(it.lon)
  IN IF ~it.object THEN skip
     ELSE IF ~IsSome(it.kind) \/ ~IsSome(it.mac) THEN skip
     ELSE IF ~ek[1] \/ ~ParseMacOk(Val(it.mac)) THEN skip
     ELSE IF ek[2] = "WifiAp"
       THEN LET match == {i \in AnchorSlots : st.anchors[i].in_use /\ st.anchors[i].addr = mac}
                free == {i \in AnchorSlots : ~st.anchors[i].in_use}
                slot == IF match # {} THEN FirstSlot(match)
                        ELSE IF free # {} THEN FirstSlot(free) ELSE 0
                a0 == IF match # {} THEN st.anchors[slot]
                      ELSE [AnchorDefault EXCEPT !.in_use = TRUE, !.addr = mac, !.flags = {},
                                                 !.index = st.next_index, !.last_seen_s = ts,
                                                 !.last_rssi = -95]
                a1 == [a0 EXCEPT !.flags = SetFlag(@, "Watching")]
                a2 == IF geo
                        THEN [a1 EXCEPT !.best_lat = ReadCoord(Val(it.lat)),
                                        !.best_lon = ReadCoord(Val(it.lon)),
                                        !.best_rssi = -127,
                                        !.w_sum = 0, !.w_lat = 0, !.w_lon = 0,
                                        !.flags = SetFlag(@, "HasGeo")]
                        ELSE a1
            IN IF slot = 0 THEN skip
               ELSE [st EXCEPT !.anchors = [@ EXCEPT ![slot] = a2],
                               !.next_index = IF match # {} THEN @ ELSE NextIndexAfter(@),
                               !.applied = @ + 1]
     ELSE LET tk == IF ek[2] = "BleAdv" THEN "BleAdv" ELSE "WifiClient"
              match == TrackMatches(st.tracks, tk, mac)
              free == {i \in TrackSlots : ~st.tracks[i].in_use}
              slot == IF match # {} THEN FirstSlot(match)
                      ELSE IF free # {} THEN FirstSlot(free) ELSE 0
              nt == [TrackDefault EXCEPT !.in_use = TRUE, !.kind = tk, !.addr = mac, !.flags = {},
                                         !.index = st.next_index, !.first_seen_s = ts,
                                         !.last_seen_s = ts, !.ema_rssi = -9500]
              ntg == IF geo
                       THEN [nt EXCEPT !.last_lat = ReadCoord(Val(it.lat)),
                                       !.last_lon = ReadCoord(Val(it.lon)),
                                       !.last_geo_s = ts, !.flags = SetFlag(@, "HasGeo")]
                       ELSE nt
              t0 == IF match # {} THEN st.tracks[slot] ELSE ntg
          IN IF slot = 0 THEN skip
             ELSE [st EXCEPT !.tracks = [@ EXCEPT ![slot] = restore_tracker(t0, it)],
                             !.next_index = IF match # {} THEN @ ELSE NextIndexAfter(@),
                             !.applied = @ + 1]

RECURSIVE apply_items(_, _, _, _)
apply_items(st, items, k, ts) ==
  IF k > Len(items) THEN st
  ELSE apply_items(apply_item(st, items[k], ts), items, k + 1, ts)

\* a load that fails as a whole when one item is skipped
readWatchlistAllOrNothing(f, tracks, anchors, next_index, ts) ==
  LET st0 == [tracks |-> tracks, anchors |-> anchors, next_index |-> next_index,
              applied |-> 0, skipped |-> 0]
      st == apply_items(st0, f.items, 1, ts)
  IN IF f.state # "doc" \/ st.skipped > 0
       THEN [ok |-> FALSE, tracks |-> tracks, anchors |-> anchors, next_index |-> next_index]
       ELSE [ok |-> st.applied > 0, tracks |-> st.tracks, anchors |-> st.anchors,
             next_index |-> RecomputeNextIndex(st.tracks, st.anchors)]
\* readWatchlist on file f at time ts: [ok, tracks, anchors, next_index].
\* f.state is "absent", "empty", "garbage" (not JSON), "noitems" (valid JSON
\* without an items array) or "doc" (f.items is the array).
readWatchlist(f, tracks, anchors, next_index, ts) ==
  LET st0 == [tracks |-> tracks, anchors |-> anchors, next_index |-> next_index,
              applied |-> 0, skipped |-> 0]
      st == apply_items(st0, f.items, 1, ts)
  IN IF f.state # "doc"
       THEN [ok |-> FALSE, tracks |-> tracks, anchors |-> anchors, next_index |-> next_index]
       ELSE [ok |-> st.applied > 0, tracks |-> st.tracks, anchors |-> st.anchors,
             next_index |-> RecomputeNextIndex(st.tracks, st.anchors)]

(* -------------------------- writeWatchlistKml -------------------------- *)
\* <coordinates>: f.print(lon, 8), ",", f.print(lat, 8), ",0"
\* the two numbers the other way round
KmlPointLatLon(lat, lon) == <<PrintCoord(lat), PrintCoord(lon), 0>>
KmlPoint(lat, lon) == <<PrintCoord(lon), PrintCoord(lat), 0>>

\* the slots a Placemark is written for: in use, Watching and HasGeo, in
\* slot order
RECURSIVE KmlSlots(_, _, _)
KmlSlots(tb, i, n) ==
  IF i > n THEN <<>>
  ELSE (IF tb[i].in_use /\ HasFlag(tb[i].flags, "Watching") /\ HasFlag(tb[i].flags, "HasGeo")
          THEN <<i>> ELSE <<>>)
         \o KmlSlots(tb, i + 1, n)

\* lines 1549-1626: the Placemark of an anchor (no SSID is kept here): its
\* <name>, the lines of its <description>, its <coordinates>
AnchorPlacemark(a) ==
  [name |-> <<macToString(a.addr)>>,
   description |-> <<<<"Kind", sWifiAp>>, <<"MAC", macToString(a.addr)>>>>,
   coordinates |-> KmlPoint(AnchorGeo(a).lat, AnchorGeo(a).lon)]

\* lines 1628-1717: the Placemark of a track
TrackPlacemark(t) ==
  LET kindStr == IF t.kind = "BleAdv" THEN sBleAdv ELSE sWifiClient
  IN [name |-> <<IF t.tracker_type # "Unknown" THEN TrackerTypeName(t.tracker_type) ELSE kindStr,
                 macToString(t.addr)>>,
      description |->
        <<<<"Kind", kindStr>>, <<"MAC", macToString(t.addr)>>>>
          \o (IF t.tracker_type # "Unknown"
                THEN <<<<"TrackerType", TrackerTypeName(t.tracker_type)>>>> ELSE <<>>)
          \o (IF t.tracker_google_mfr # "Unknown"
                THEN <<<<"GoogleFMN", GoogleMfrName(t.tracker_google_mfr)>>>> ELSE <<>>)
          \o (IF t.tracker_samsung_subtype # "Unknown"
                THEN <<<<"SamsungSubtype", SamsungSubtypeName(t.tracker_samsung_subtype)>>>>
                ELSE <<>>)
          \o (IF t.tracker_confidence # 0
                THEN <<<<"TrackerConfidence", t.tracker_confidence>>>> ELSE <<>>),
      coordinates |-> KmlPoint(t.last_lat, t.last_lon)]

\* writeWatchlistKml on card c: [ok, sd]; the document is the sequence of
\* its Placemarks, anchors before tracks
writeWatchlistKml(c, tracks, anchors) ==
  LET as == KmlSlots(anchors, 1, MAX_ANCHORS)
      ts == KmlSlots(tracks, 1, MAX_TRACKS)
  IN IF ~c.available THEN [ok |-> FALSE, sd |-> c]
     ELSE [ok |-> TRUE,
           sd |-> [c EXCEPT !.kml = <<[k \in 1..Len(as) |-> AnchorPlacemark(anchors[as[k]])]
                                       \o [k \in 1..Len(ts) |-> TrackPlacemark(tracks[ts[k]])]>>]]

(* --------------------------- updateEntity ------------------------------ *)
\* the flags of the matched slot after updateEntity(in)
\* a flag that is only ever set
ApplyWatchBitSet(flags, in) == SetFlag(flags, "Watching")
ApplyWatchBit(flags, in) ==
  IF HasFlag(in.flags, "Watching") THEN SetFlag(flags, "Watching") ELSE ClearFlag(flags, "Watching")

\* updateEntity(in): <<tracks, anchors>>; the first in-use slot with in's
\* index, in the anchor table for a WifiAp view and in the track table else
updateEntity(tracks, anchors, in) ==
  LET am == {i \in AnchorSlots : anchors[i].in_use /\ anchors[i].index = in.index}
      tm == {i \in TrackSlots : tracks[i].in_use /\ tracks[i].index = in.index}
  IN IF in.kind = "WifiAp"
       THEN IF am = {} THEN <<tracks, anchors>>
            ELSE <<tracks, [anchors EXCEPT ![FirstSlot(am)].flags = ApplyWatchBit(@, in)]>>
       ELSE IF tm = {} THEN <<tracks, anchors>>
            ELSE <<[tracks EXCEPT ![FirstSlot(tm)].flags = ApplyWatchBit(@, in)], anchors>>

(* ------------------------------- inputs -------------------------------- *)
MacA == <<170, 187, 204, 221, 238, 255>>
MacB == <<17, 34, 51, 68, 85, 102>>
Addrs == {MacA, MacB}
\* one near (>= RSSI_NEAR_DBM) and one mid received signal strength
Rssis == {-60, -70}
\* the seconds since boot at which the clock is looked at
Instants == {0, 2000}
\* GNSS positions in nano-degrees: FixB is 55.6 m north of FixA
FixA == [lat |-> 123456, lon |-> -234564]
FixB == [lat |-> 623456, lon |-> -234564]
GpsInputs == {[valid |-> FALSE, lat |-> 0, lon |-> 0],
              [valid |-> TRUE, lat |-> FixA.lat, lon |-> FixA.lon]}
\* classifier outputs BleTracker::Inspect can return
TagInfo == [type |-> "SmartThingsFind", google_mfr |-> "Unknown", samsung_subtype |-> "Unknown", confidence |-> 90]
NoInfo == [type |-> "Unknown", google_mfr |-> "Unknown", samsung_subtype |-> "Unknown", confidence |-> 0]

\* Observation{} filled in by a radio callback
MkObs(kind, rssi, addr, ts_s, info) ==
  [kind |-> kind, rssi_dbm |-> rssi, addr |-> addr, ts_s |-> ts_s,
   tracker_type |-> info.type, tracker_google_mfr |-> info.google_mfr,
   tracker_samsung_subtype |-> info.samsung_subtype, tracker_confidence |-> info.confidence]

\* what the promiscuous callback can produce at ts_s: a probe request of
\* client MacA, a beacon of access point MacA
WifiObs(ts_s) ==
  {MkObs(k, -60, MacA, ts_s, NoInfo) : k \in {"WifiProbeReq", "WifiApBeacon"}}
\* what the BLE scan callback can produce at ts_s: an unclassified
\* advertiser MacA, a SmartThings Find tag MacB
BleObs(ts_s) ==
  {MkObs("BleAdv", -70, MacA, ts_s, NoInfo), MkObs("BleAdv", -60, MacB, ts_s, TagInfo)}

\* watchlist files found on flash at boot
FileAbsent == [state |-> "absent", items |-> <<>>]
FileSaved ==
  [state |-> "doc",
   items |-> <<[ItemDefault EXCEPT !.kind = Some(sWifiAp), !.mac = Some(macToString(MacA)),
                                   !.lat = Some(PrintCoord(FixA.lat)), !.lon = Some(PrintCoord(FixA.lon))],
               [ItemDefault EXCEPT !.kind = Some(sBleAdv), !.mac = Some(macToString(MacB)),
                                   !.tracker_type = Some(sAirTag), !.tracker_confidence = Some(75)]>>]
BootFiles == {FileAbsent, FileSaved}

(* ------------------------------- state --------------------------------- *)
VARIABLES
  g_tracks,              \* Track g_tracks[MAX_TRACKS]
  g_anchors,             \* Anchor g_anchors[MAX_ANCHORS]
  g_next_index,          \* uint16_t g_next_index
  g_seg,                 \* g_segment_id, g_move_segments, g_last_env_tick_s, g_last_fp,
                         \* g_gps_anchor_valid/lat/lon, g_last_gps_seg_s
  g_current_window,      \* crowd estimator
  g_window_unique_hits,
  g_gps,                 \* g_gps_valid, g_gps_lat, g_gps_lon
  g_obs_q,               \* the observation queue, oldest first
  fs_watchlist,          \* /pt_watchlist.json on SPIFFS
  now,                   \* now_s()
  cb,                    \* per radio callback: <<>> or <<obs>>, the Observation it has
                         \* time-stamped and not yet passed to xQueueSend
  radio_on,              \* the radio sources that have been started
  p_pc, p_obs, p_ts,     \* processing_task: position, its local obs and ts_s
  m_pc,                  \* the main task: begin(), then loop() with the UI
  ui_items,              \* UIGrid::_items[0 .. _count-1]
  obs_left, ui_left,     \* observations the radios still deliver, UI operations still made
  last,                  \* what the step taken last did, "" when nothing of note
  h_accepted, h_applied, \* the observations the queue accepted / process_observation
                         \* was called with, in order
  saved,                 \* the tables as they were when the watch list was last written
                         \* for a round trip, and how the round trip goes on
  g_lock,                \* portMUX_TYPE g_lock: "free" or the task inside the critical section
  p_loc,                 \* processing_task: the locals of the call it is in
  m_loc,                 \* the main task: the arguments and locals of the call it is in
  h_aux,                 \* what the calls in progress started from and were given
  sd                     \* the SD card: whether it is available, /pt_watchlist.kml on it

vars == <<g_tracks, g_anchors, g_next_index, g_seg, g_current_window, g_window_unique_hits,
          g_gps, g_obs_q, fs_watchlist, now, cb, radio_on, p_pc, p_obs, p_ts, m_pc,
          ui_items, obs_left, ui_left, last, h_accepted, h_applied, saved,
          g_lock, p_loc, m_loc, h_aux, sd>>

tableVars == <<g_tracks, g_anchors, g_next_index>>
procVars == <<p_pc, p_obs, p_ts>>
histVars == <<h_accepted, h_applied, saved>>

Callbacks == {"wifi", "ble"}
NoSaved == [path |-> "", tracks |-> <<>>, anchors |-> <<>>]
NoObs == <<>>
\* no call in progress
NoLoc == <<>>
NoAux == <<>>
\* main.cpp setup(): the card is mounted and setSdAvailable(true) called;
\* no /pt_watchlist.kml has been written
SdDefault == [available |-> TRUE, kml |-> <<>>]

\* the file-scope initialisers of DeviceTracker.cpp, before begin() runs
InitCommon ==
  /\ g_tracks = [i \in TrackSlots |-> TrackDefault]
  /\ g_anchors = [i \in AnchorSlots |-> AnchorDefault]
  /\ g_seg = SegDefault
  /\ g_current_window = 0
  /\ g_window_unique_hits = 0
  /\ g_gps = [valid |-> FALSE, lat |-> 0, lon |-> 0]
  /\ g_obs_q = <<>>
  /\ cb = [c \in Callbacks |-> NoObs]
  /\ p_obs = NoObs
  /\ p_ts = 0
  /\ ui_items = <<>>
  /\ last = ""
  /\ h_accepted = <<>>
  /\ h_applied = <<>>
  /\ saved = NoSaved
  /\ g_lock = "free"
  /\ p_loc = NoLoc
  /\ m_loc = NoLoc
  /\ h_aux = NoAux
  /\ sd = SdDefault

Init ==
  /\ InitCommon
  /\ g_next_index = 1
  /\ fs_watchlist \in BootFiles
  /\ now = 0
  /\ radio_on = {}
  /\ p_pc = "off"
  /\ m_pc = "begin_wifi"
  /\ obs_left = MaxObs
  /\ ui_left = MaxUiOps

(* ------------------------------- clock --------------------------------- *)
TickTo(T) ==
  /\ \E t \in T : t > now /\ now' = t
  /\ last' = ""
  /\ UNCHANGED <<sd, g_lock, p_loc, m_loc, h_aux, g_tracks, g_anchors, g_next_index, g_seg, g_current_window,
                 g_window_unique_hits, g_gps, g_obs_q, fs_watchlist, cb, radio_on,
                 p_pc, p_obs, p_ts, m_pc, ui_items, obs_left, ui_left, h_accepted, h_applied, saved>>

Tick == TickTo(Instants)

(* --------------------------- BleTracker::Inspect ----------------------- *)
\* TrackerInfo
Info(t, g, ss, c) == [type |-> t, google_mfr |-> g, samsung_subtype |-> ss, confidence |-> c]
\* MarkovNameGenerator.cpp line 151
BT_COMPANY_ID_APPLE == 76
\* the 16-bit service UUIDs of lines 154-159
ServiceUuids == {"FEED", "FD5A", "FD69", "FEAA", "FA25", "FE33"}
\* an advertisement dev: the service UUIDs it lists, its manufacturer data
\* (none, or one byte string) and its local name
NoMfg == <<>>
HasService(dev, uuid) == uuid \in dev.services

\* IContains(haystack, needle): std::search with both characters lowered
IContains(haystack, needle) ==
  \/ needle = <<>>
  \/ \E i \in 1..(Len(haystack) - Len(needle) + 1) :
       \A j \in 1..Len(needle) : FoldChar(haystack[i + j - 1]) = FoldChar(needle[j])

GuessGoogleMfrFromName(name) ==
  IF name = <<>> THEN "Unknown"
  ELSE IF IContains(name, <<"p","e","b","b","l","e","b","e","e">>) THEN "PebbleBee"
  ELSE IF IContains(name, <<"c","h","i","p","o","l","o">>) THEN "Chipolo"
  ELSE IF IContains(name, <<"e","u","f","y">>) THEN "Eufy"
  ELSE IF IContains(name, <<"m","o","t","o","r","o","l","a">>) THEN "Motorola"
  ELSE IF IContains(name, <<"m","o","t","o">>) THEN "Motorola"
  ELSE IF IContains(name, <<"j","i","o">>) THEN "Jio"
  ELSE IF IContains(name, <<"r","o","l","l","i","n","g"," ","s","q","u","a","r","e">>)
    THEN "RollingSquare"
  ELSE "Unknown"

GuessSamsungSubtypeFromName(name) ==
  IF name = <<>> THEN "Unknown"
  ELSE IF \/ IContains(name, <<"s","m","a","r","t","t","a","g","2">>)
          \/ IContains(name, <<"s","m","a","r","t"," ","t","a","g","2">>)
          \/ IContains(name, <<"s","m","a","r","t"," ","t","a","g"," ","2">>) THEN "SmartTag2"
  ELSE IF IContains(name, <<"s","o","l","u","m">>) THEN "Solum"
  ELSE IF \/ IContains(name, <<"s","m","a","r","t","t","a","g","+">>)
          \/ IContains(name, <<"s","m","a","r","t"," ","t","a","g","+">>) THEN "SmartTag1Plus"
  ELSE IF \/ IContains(name, <<"s","m","a","r","t","t","a","g">>)
          \/ IContains(name, <<"s","m","a","r","t"," ","t","a","g">>) THEN "SmartTag1"
  ELSE "Unknown"

\* TryGetAppleMfgPayload: [ok, p], p the bytes after the company id
TryGetAppleMfgPayload(dev) ==
  IF dev.mfg = NoMfg THEN [ok |-> FALSE, p |-> <<>>]
  ELSE LET mfg == dev.mfg[1]
       IN IF Len(mfg) < 2 THEN [ok |-> FALSE, p |-> <<>>]
          ELSE IF (mfg[1] + 256 * mfg[2]) % 65536 # BT_COMPANY_ID_APPLE
            THEN [ok |-> FALSE, p |-> <<>>]
          ELSE [ok |-> TRUE, p |-> SubSeq(mfg, 3, Len(mfg))]

\* b & 0x18 of a byte
And18(b) == ((b \div 8) % 4) * 8

\* the Apple rows skipped: service UUIDs only
InspectNoApple(dev, ap) == <<>>
\* the rows 2) of Inspect, payload ap of an Apple manufacturer record:
\* <<>> when none returns
InspectApple(dev, ap) ==
  IF Len(ap) >= 2 /\ ap[1] = 18 /\ ap[2] = 25
    THEN IF Len(ap) >= 3 /\ And18(ap[3]) = 24
           THEN <<Info("AppleAirPods", "Unknown", "Unknown", 85)>>
         ELSE IF Len(ap) >= 3 /\ And18(ap[3]) = 16
           THEN IF HasService(dev, "FE33")
                  THEN <<Info("AppleFindMy", "Unknown", "Unknown", 80)>>
                  ELSE <<Info("AppleAirTag", "Unknown", "Unknown", 75)>>
         ELSE <<Info("AppleFindMy", "Unknown", "Unknown", 65)>>
  ELSE <<>>

Inspect(dev) ==
  LET name == dev.name
      a == TryGetAppleMfgPayload(dev)
      apple == IF a.ok THEN InspectApple(dev, a.p) ELSE <<>>
  IN IF HasService(dev, "FEED") THEN Info("Tile", "Unknown", "Unknown", 95)
     ELSE IF HasService(dev, "FD5A")
       THEN Info("SmartThingsTracker", "Unknown", GuessSamsungSubtypeFromName(name), 95)
     ELSE IF HasService(dev, "FD69") THEN Info("SmartThingsFind", "Unknown", "Unknown", 90)
     ELSE IF HasService(dev, "FEAA")
       THEN Info("GoogleFindHub", GuessGoogleMfrFromName(name), "Unknown", 90)
     ELSE IF HasService(dev, "FA25") THEN Info("PebbleBee", "Unknown", "Unknown", 90)
     ELSE IF apple # <<>> THEN apple[1]
     ELSE IF HasService(dev, "FE33") THEN Info("Chipolo", "Unknown", "Unknown", 80)
     ELSE Info("Unknown", "Unknown", "Unknown", 0)

\* the advertisements received: any set of the six services; manufacturer
\* data of up to MaxMfgLen bytes over one byte of each value of b & 0x18
\* (0x00, 0x4C, 0x12, 0x19), which are also the bytes of the company id and
\* of the 0x12 0x19 prefix; no local name or one
MaxMfgLen == 5
MfgBytes == {0, 76, 18, 25}
RECURSIVE BytesUpTo(_)
BytesUpTo(n) ==
  IF n = 0 THEN {<<>>}
  ELSE LET S == BytesUpTo(n - 1)
       IN S \cup {Append(b, x) : b \in {c \in S : Len(c) = n - 1}, x \in MfgBytes}
AdvNames == {<<>>, <<"M","O","T","O"," ","S","m","a","r","t"," ","T","a","g","+">>}
Advertisements ==
  [services : SUBSET ServiceUuids,
   mfg : {NoMfg} \cup {<<b>> : b \in BytesUpTo(MaxMfgLen)},
   name : AdvNames]

(* --------------------------- radio callbacks --------------------------- *)
\* wifi_promisc_cb lines 655-657 / ScanCB::onResult lines 721-739: the
\* callback fills its Observation, obs.ts_s = now_s()
StampFrom(c, O) ==
  /\ c \in radio_on
  /\ cb[c] = NoObs
  /\ obs_left > 0
  /\ \E o \in O : cb' = [cb EXCEPT ![c] = <<o>>]
  /\ obs_left' = obs_left - 1
  /\ last' = ""
  /\ UNCHANGED <<sd, g_lock, p_loc, m_loc, h_aux, g_tracks, g_anchors, g_next_index, g_seg, g_current_window,
                 g_window_unique_hits, g_gps, g_obs_q, fs_watchlist, now, radio_on,
                 p_pc, p_obs, p_ts, m_pc, ui_items, ui_left, h_accepted, h_applied, saved>>

CbStamp(c) == StampFrom(c, IF c = "wifi" THEN WifiObs(now) ELSE BleObs(now))

\* ScanCB::onResult on the advertisement h_aux: the observation carries
\* what Inspect returns
ScanResult == StampFrom("ble", {MkObs("BleAdv", -60, MacB, now, Inspect(h_aux))})

\* xQueueSend(g_obs_q, &obs, 0) / xQueueSendFromISR: the queue after the
\* call; a full queue is left as it is and the call returns at once
\* a full queue overwriting its oldest entry
QueueSendOverwrite(q, o) == IF Len(q) < OBS_Q_LEN THEN Append(q, o) ELSE Append(Tail(q), o)
\* xQueueSendToFront
QueueSendToFront(q, o) == IF Len(q) < OBS_Q_LEN THEN <<o>> \o q ELSE q
QueueSend(q, o) == IF Len(q) < OBS_Q_LEN THEN Append(q, o) ELSE q

Send(c) ==
  /\ cb[c] # NoObs
  /\ g_obs_q' = QueueSend(g_obs_q, cb[c][1])
  /\ cb' = [cb EXCEPT ![c] = NoObs]
  /\ last' = IF Len(g_obs_q') > Len(g_obs_q) THEN "" ELSE "dropped"
  /\ UNCHANGED <<sd, g_lock, p_loc, m_loc, h_aux, g_tracks, g_anchors, g_next_index, g_seg, g_current_window,
                 g_window_unique_hits, g_gps, fs_watchlist, now, radio_on,
                 p_pc, p_obs, p_ts, m_pc, ui_items, obs_left, ui_left>>

CbSend(c) == Send(c) /\ UNCHANGED histVars

(* --------------------------- processing_task --------------------------- *)
\* xQueueReceive(g_obs_q, &obs, 250 ms) == pdTRUE
ProcReceive ==
  /\ p_pc = "recv"
  /\ g_obs_q # <<>>
  /\ p_obs' = <<Head(g_obs_q)>>
  /\ g_obs_q' = Tail(g_obs_q)
  /\ p_pc' = "crowd"
  /\ last' = ""
  /\ UNCHANGED <<sd, g_lock, p_loc, m_loc, h_aux, g_tracks, g_anchors, g_next_index, g_seg, g_current_window,
                 g_window_unique_hits, g_gps, fs_watchlist, now, cb, radio_on,
                 p_ts, m_pc, ui_items, obs_left, ui_left, h_accepted, h_applied, saved>>

\* a receive that blocks for as long as the queue is empty (portMAX_DELAY)
ProcTimeoutNever ==
  /\ p_pc = "recv"
  /\ g_obs_q = <<>>
  /\ UNCHANGED <<sd, g_lock, p_loc, m_loc, h_aux, g_tracks, g_anchors, g_next_index, g_seg, g_current_window,
                 g_window_unique_hits, g_gps, g_obs_q, fs_watchlist, now, cb, radio_on,
                 p_pc, p_obs, p_ts, m_pc, ui_items, obs_left, ui_left, last,
                 h_accepted, h_applied, saved>>

\* xQueueReceive times out on an empty queue
ProcTimeout ==
  /\ p_pc = "recv"
  /\ g_obs_q = <<>>
  /\ p_pc' = "segment"
  /\ last' = ""
  /\ UNCHANGED <<sd, g_lock, p_loc, m_loc, h_aux, g_tracks, g_anchors, g_next_index, g_seg, g_current_window,
                 g_window_unique_hits, g_gps, g_obs_q, fs_watchlist, now, cb, radio_on,
                 p_obs, p_ts, m_pc, ui_items, obs_left, ui_left, h_accepted, h_applied, saved>>

\* process_observation lines 489-494
ProcCrowd ==
  /\ p_pc = "crowd"
  /\ LET c == crowd_update(g_current_window, g_window_unique_hits, p_obs[1].ts_s)
     IN /\ g_current_window' = c[1]
        /\ g_window_unique_hits' = c[2]
  /\ p_pc' = "apply"
  /\ last' = ""
  /\ UNCHANGED <<sd, g_lock, p_loc, m_loc, h_aux, g_tracks, g_anchors, g_next_index, g_seg, g_gps, g_obs_q, fs_watchlist,
                 now, cb, radio_on, p_obs, p_ts, m_pc, ui_items, obs_left, ui_left,
                 h_accepted, h_applied, saved>>

\* process_observation lines 496-580, one critical section
Apply ==
  /\ p_pc = "apply"
  /\ LET r == apply_observation(g_tracks, g_anchors, g_next_index, g_seg.segment_id,
                                g_window_unique_hits, g_gps, p_obs[1])
     IN /\ g_tracks' = r.tracks
        /\ g_anchors' = r.anchors
        /\ g_next_index' = r.next_index
        /\ last' = r.how
  /\ p_obs' = NoObs
  /\ p_pc' = "segment"
  /\ UNCHANGED <<sd, g_lock, p_loc, m_loc, h_aux, g_seg, g_current_window, g_window_unique_hits, g_gps, g_obs_q, fs_watchlist,
                 now, cb, radio_on, p_ts, m_pc, ui_items, obs_left, ui_left>>

ProcApply == Apply /\ UNCHANGED histVars

\* ts_s = now_s(); maybe_advance_segment(ts_s)
ProcSegment ==
  /\ p_pc = "segment"
  /\ p_ts' = now
  /\ g_seg' = maybe_advance_segment(g_seg, g_gps, g_anchors, now)
  /\ p_pc' = "expire"
  /\ last' = IF g_seg'.segment_id # g_seg.segment_id THEN "advance" ELSE ""
  /\ UNCHANGED <<sd, g_lock, p_loc, m_loc, h_aux, g_tracks, g_anchors, g_next_index, g_current_window, g_window_unique_hits,
                 g_gps, g_obs_q, fs_watchlist, now, cb, radio_on, p_obs, m_pc, ui_items,
                 obs_left, ui_left, h_accepted, h_applied, saved>>

\* expire_tables(ts_s)
ProcExpire ==
  /\ p_pc = "expire"
  /\ g_tracks' = expire_tracks(g_tracks, p_ts)
  /\ g_anchors' = expire_anchors(g_anchors, p_ts)
  /\ p_pc' = "recv"
  /\ last' = IF g_tracks' # g_tracks \/ g_anchors' # g_anchors THEN "expired" ELSE ""
  /\ UNCHANGED <<sd, g_lock, p_loc, m_loc, h_aux, g_next_index, g_seg, g_current_window, g_window_unique_hits, g_gps, g_obs_q,
                 fs_watchlist, now, cb, radio_on, p_obs, p_ts, m_pc, ui_items, obs_left, ui_left,
                 h_accepted, h_applied, saved>>

(* --------------------------- begin(), main task ------------------------ *)
\* initWifiSniffer(): the promiscuous callback is registered and enabled
BeginWifi ==
  /\ m_pc = "begin_wifi"
  /\ radio_on' = radio_on \cup {"wifi"}
  /\ m_pc' = "begin_ble"
  /\ last' = ""
  /\ UNCHANGED <<sd, g_lock, p_loc, m_loc, h_aux, g_tracks, g_anchors, g_next_index, g_seg, g_current_window,
                 g_window_unique_hits, g_gps, g_obs_q, fs_watchlist, now, cb,
                 p_pc, p_obs, p_ts, ui_items, obs_left, ui_left, h_accepted, h_applied, saved>>

\* initBleScan(); initBleTracker()
BeginBle ==
  /\ m_pc = "begin_ble"
  /\ radio_on' = radio_on \cup {"ble"}
  /\ m_pc' = "begin_read"
  /\ last' = ""
  /\ UNCHANGED <<sd, g_lock, p_loc, m_loc, h_aux, g_tracks, g_anchors, g_next_index, g_seg, g_current_window,
                 g_window_unique_hits, g_gps, g_obs_q, fs_watchlist, now, cb,
                 p_pc, p_obs, p_ts, ui_items, obs_left, ui_left, h_accepted, h_applied, saved>>

\* readWatchlist()
BeginRead ==
  /\ m_pc = "begin_read"
  /\ LET r == readWatchlist(fs_watchlist, g_tracks, g_anchors, g_next_index, now)
     IN /\ g_tracks' = r.tracks
        /\ g_anchors' = r.anchors
        /\ g_next_index' = r.next_index
        /\ last' = "loaded"
  /\ m_pc' = "begin_start"
  /\ UNCHANGED <<sd, g_lock, p_loc, m_loc, h_aux, g_seg, g_current_window, g_window_unique_hits, g_gps, g_obs_q, fs_watchlist,
                 now, cb, radio_on, p_pc, p_obs, p_ts, ui_items, obs_left, ui_left,
                 h_accepted, h_applied, saved>>

\* start_tasks(): processing_task is created
BeginStart ==
  /\ m_pc = "begin_start"
  /\ p_pc' = "recv"
  /\ m_pc' = "loop"
  /\ last' = ""
  /\ UNCHANGED <<sd, g_lock, p_loc, m_loc, h_aux, g_tracks, g_anchors, g_next_index, g_seg, g_current_window,
                 g_window_unique_hits, g_gps, g_obs_q, fs_watchlist, now, cb, radio_on,
                 p_obs, p_ts, ui_items, obs_left, ui_left, h_accepted, h_applied, saved>>

(* ------------------------------ loop(), UI ----------------------------- *)
\* stationary_ratio as main.cpp computes it, in thousandths
Ratios == {0, 1000}

\* setGpsFix(valid, lat, lon)
setGpsFix(gps, sg, g) ==
  [gps |-> [valid |-> g.valid,
            lat |-> IF g.valid THEN g.lat ELSE gps.lat,
            lon |-> IF g.valid THEN g.lon ELSE gps.lon],
   sg |-> IF g.valid THEN sg ELSE [sg EXCEPT !.gps_anchor_valid = FALSE]]

SetGpsFixFrom(G) ==
  /\ m_pc = "loop"
  /\ ui_left > 0
  /\ \E g \in G :
       LET r == setGpsFix(g_gps, g_seg, g)
       IN /\ r.gps # g_gps
          /\ g_gps' = r.gps
          /\ g_seg' = r.sg
  /\ ui_left' = ui_left - 1
  /\ last' = ""
  /\ UNCHANGED <<sd, g_lock, p_loc, m_loc, h_aux, g_tracks, g_anchors, g_next_index, g_current_window, g_window_unique_hits,
                 g_obs_q, fs_watchlist, now, cb, radio_on, p_pc, p_obs, p_ts, m_pc,
                 ui_items, obs_left, h_accepted, h_applied, saved>>

UiSetGpsFix == SetGpsFixFrom(GpsInputs)

\* UIGrid::update: _count = buildSnapshot(_items, 256, stationary_ratio)
UiUpdate ==
  /\ m_pc = "loop"
  /\ ui_left > 0
  /\ \E ratio \in Ratios :
       ui_items' = buildSnapshot(g_tracks, g_anchors, UI_MAX_OUT, ratio, g_seg.move_segments)
  /\ ui_left' = ui_left - 1
  /\ last' = "snapshot"
  /\ UNCHANGED <<sd, g_lock, p_loc, m_loc, h_aux, g_tracks, g_anchors, g_next_index, g_seg, g_current_window,
                 g_window_unique_hits, g_gps, g_obs_q, fs_watchlist, now, cb, radio_on,
                 p_pc, p_obs, p_ts, m_pc, obs_left, h_accepted, h_applied, saved>>

\* the row after the 'w' key toggled its Watching flag
ToggleWatching(row) ==
  [row EXCEPT !.flags = IF HasFlag(@, "Watching") THEN ClearFlag(@, "Watching")
                        ELSE SetFlag(@, "Watching")]

\* the file writeWatchlist leaves on flash
WrittenFile(tracks, anchors) == [state |-> "doc", items |-> writeWatchlist(tracks, anchors)]

\* handleKeyboard, 'w' on the selected row k: toggle, updateEntity(pe),
\* writeWatchlist()
UiToggle ==
  /\ m_pc = "loop"
  /\ ui_left > 0
  /\ \E k \in 1..Len(ui_items) :
       LET pe == ToggleWatching(ui_items[k])
           u == updateEntity(g_tracks, g_anchors, pe)
       IN /\ ui_items' = [ui_items EXCEPT ![k] = pe]
          /\ g_tracks' = u[1]
          /\ g_anchors' = u[2]
          /\ fs_watchlist' = WrittenFile(u[1], u[2])
          /\ last' = IF HasFlag(pe.flags, "Watching") THEN "watch" ELSE "unwatch"
  /\ ui_left' = ui_left - 1
  /\ UNCHANGED <<sd, g_lock, p_loc, m_loc, h_aux, g_next_index, g_seg, g_current_window, g_window_unique_hits, g_gps, g_obs_q,
                 now, cb, radio_on, p_pc, p_obs, p_ts, m_pc, obs_left, h_accepted, h_applied, saved>>

\* handleKeyboard, ESC: reset() up to xQueueReset(g_obs_q)
UiResetQueue ==
  /\ m_pc = "loop"
  /\ ui_left > 0
  /\ g_obs_q' = <<>>
  /\ m_pc' = "reset_tables"
  /\ ui_left' = ui_left - 1
  /\ last' = ""
  /\ UNCHANGED <<sd, g_lock, p_loc, m_loc, h_aux, g_tracks, g_anchors, g_next_index, g_seg, g_current_window,
                 g_window_unique_hits, g_gps, fs_watchlist, now, cb, radio_on,
                 p_pc, p_obs, p_ts, ui_items, obs_left, h_accepted, h_applied, saved>>

\* the segmentation state after reset() (lines 1088-1100)
reset_seg(sg) ==
  [sg EXCEPT !.last_fp = FpDefault, !.last_env_tick_s = 0, !.segment_id = 1,
             !.move_segments = 0, !.gps_anchor_valid = FALSE, !.last_gps_seg_s = 0]

\* reset(), the critical section (lines 1050-1102)
UiResetTables ==
  /\ m_pc = "reset_tables"
  /\ g_tracks' = reset_tracks(g_tracks)
  /\ g_anchors' = reset_anchors(g_anchors)
  /\ g_next_index' = RecomputeNextIndex(g_tracks', g_anchors')
  /\ g_seg' = reset_seg(g_seg)
  /\ g_current_window' = 0
  /\ g_window_unique_hits' = 0
  /\ m_pc' = "loop"
  /\ last' = "reset"
  /\ UNCHANGED <<sd, g_lock, p_loc, m_loc, h_aux, g_gps, g_obs_q, fs_watchlist, now, cb, radio_on, p_pc, p_obs, p_ts,
                 ui_items, obs_left, ui_left, h_accepted, h_applied, saved>>

Next ==
  \/ Tick
  \/ \E c \in Callbacks : CbStamp(c)
  \/ \E c \in Callbacks : CbSend(c)
  \/ ProcReceive
  \/ ProcTimeout
  \/ ProcCrowd
  \/ ProcApply
  \/ ProcSegment
  \/ ProcExpire
  \/ BeginWifi
  \/ BeginBle
  \/ BeginRead
  \/ BeginStart
  \/ UiSetGpsFix
  \/ UiUpdate
  \/ UiToggle
  \/ UiResetQueue
  \/ UiResetTables

Spec == Init /\ [][Next]_vars

(* ----------------------- after a long time up -------------------------- *)
\* The device has handed out IndicesUsed indices since boot. The entity that
\* got the last of them, a BLE tag seen at LongStart, was put on the watch
\* list, and the user then pressed ESC: the state reset() leaves.
IndicesUsed == INDEX_MOD - 2
LongStart == 100 * 2000
MaxUiOpsLong == 3

LongTag == MkObs("BleAdv", -60, MacB, LongStart, TagInfo)
LongTables ==
  LET seen == apply_observation([i \in TrackSlots |-> TrackDefault],
                                [i \in AnchorSlots |-> AnchorDefault],
                                IndicesUsed, 1, 1, [valid |-> FALSE, lat |-> 0, lon |-> 0], LongTag)
      row == ToggleWatching(TrackView(seen.tracks[1], 0, 0))
      u == updateEntity(seen.tracks, seen.anchors, row)
  IN [tracks |-> reset_tracks(u[1]), anchors |-> reset_anchors(u[2])]

InitLong ==
  /\ g_tracks = LongTables.tracks
  /\ g_anchors = LongTables.anchors
  /\ g_next_index = RecomputeNextIndex(LongTables.tracks, LongTables.anchors)
  /\ g_seg = reset_seg(SegDefault)
  /\ g_current_window = 0
  /\ g_window_unique_hits = 0
  /\ g_gps = [valid |-> FALSE, lat |-> 0, lon |-> 0]
  /\ g_obs_q = <<>>
  /\ fs_watchlist = WrittenFile(LongTables.tracks, LongTables.anchors)
  /\ now = LongStart
  /\ cb = [c \in Callbacks |-> NoObs]
  /\ radio_on = Callbacks
  /\ p_pc = "recv"
  /\ p_obs = NoObs
  /\ p_ts = LongStart
  /\ m_pc = "loop"
  /\ ui_items = <<>>
  /\ obs_left = MaxObs
  /\ ui_left = MaxUiOpsLong
  /\ last = "reset"
  /\ h_accepted = <<>>
  /\ h_applied = <<>>
  /\ saved = NoSaved
  /\ g_lock = "free"
  /\ p_loc = NoLoc
  /\ m_loc = NoLoc
  /\ h_aux = NoAux
  /\ sd = SdDefault

\* the running system while the clock reads LongStart and the GNSS has no fix
NextLong ==
  \/ \E c \in Callbacks : CbStamp(c)
  \/ \E c \in Callbacks : CbSend(c)
  \/ ProcReceive
  \/ ProcTimeout
  \/ ProcCrowd
  \/ ProcApply
  \/ ProcSegment
  \/ ProcExpire
  \/ UiUpdate
  \/ UiToggle
  \/ UiResetQueue
  \/ UiResetTables

SpecLong == InitLong /\ [][NextLong]_vars

(* ----------------------- watch list round trips ------------------------ *)
\* everything BleTracker::Inspect can return
InspectInfos ==
  {Info("Tile", "Unknown", "Unknown", 95), Info("SmartThingsFind", "Unknown", "Unknown", 90),
   Info("PebbleBee", "Unknown", "Unknown", 90), Info("AppleAirPods", "Unknown", "Unknown", 85),
   Info("AppleFindMy", "Unknown", "Unknown", 80), Info("AppleAirTag", "Unknown", "Unknown", 75),
   Info("AppleFindMy", "Unknown", "Unknown", 65), Info("Chipolo", "Unknown", "Unknown", 80),
   Info("Unknown", "Unknown", "Unknown", 0)}
    \cup {Info("SmartThingsTracker", "Unknown", ss, 95) : ss \in SamsungSubtypes}
    \cup {Info("GoogleFindHub", g, "Unknown", 90) : g \in GoogleMfrs}

\* a fix south of the equator whose digits beyond the eighth decimal round up
FixC == [lat |-> -987655, lon |-> 14]
WlGps == GpsInputs \cup {[valid |-> TRUE, lat |-> FixC.lat, lon |-> FixC.lon]}
\* a strong beacon (the centroid is displayed) and a weak one (the best pass)
WlBeaconRssis == {-60, -90}

\* the tables after a beacon of MacA, an advertisement of tag MacB and a probe
\* request of MacA were processed at time 0 under fix g, and the rows of the
\* entities in watch were put on the watch list
InitWl ==
  /\ \E g \in WlGps, r \in WlBeaconRssis, info \in InspectInfos, watch \in SUBSET {"ap", "tag", "client"} :
     \E t1 \in {apply_observation([i \in TrackSlots |-> TrackDefault],
                                  [i \in AnchorSlots |-> AnchorDefault], 1, 1, 1, g,
                                  MkObs("WifiApBeacon", r, MacA, 0, NoInfo))} :
     \E t2 \in {apply_observation(t1.tracks, t1.anchors, t1.next_index, 1, 2, g,
                                  MkObs("BleAdv", -60, MacB, 0, info))} :
     \E t3 \in {apply_observation(t2.tracks, t2.anchors, t2.next_index, 1, 3, g,
                                  MkObs("WifiProbeReq", -70, MacA, 0, NoInfo))} :
     \E u1 \in {IF "ap" \in watch
                  THEN updateEntity(t3.tracks, t3.anchors, ToggleWatching(AnchorView(t3.anchors[1])))
                  ELSE <<t3.tracks, t3.anchors>>} :
     \E u2 \in {IF "tag" \in watch
                  THEN updateEntity(u1[1], u1[2], ToggleWatching(TrackView(u1[1][1], 0, 0)))
                  ELSE u1} :
     \E u3 \in {IF "client" \in watch
                  THEN updateEntity(u2[1], u2[2], ToggleWatching(TrackView(u2[1][2], 0, 0)))
                  ELSE u2} :
       /\ g_tracks = u3[1]
       /\ g_anchors = u3[2]
       /\ g_next_index = t3.next_index
       /\ g_gps = g
  /\ g_seg = SegDefault
  /\ g_current_window = 0
  /\ g_window_unique_hits = 3
  /\ g_obs_q = <<>>
  /\ fs_watchlist = FileAbsent
  /\ now = 0
  /\ cb = [c \in Callbacks |-> NoObs]
  /\ radio_on = Callbacks
  /\ p_pc = "recv"
  /\ p_obs = NoObs
  /\ p_ts = 0
  /\ m_pc = "wl_write"
  /\ ui_items = <<>>
  /\ obs_left = 0
  /\ ui_left = 0
  /\ last = ""
  /\ h_accepted = <<>>
  /\ h_applied = <<>>
  /\ saved = NoSaved
  /\ g_lock = "free"
  /\ p_loc = NoLoc
  /\ m_loc = NoLoc
  /\ h_aux = NoAux
  /\ sd = SdDefault

\* writeWatchlist(); what follows is reset() or a power cycle
WlWrite ==
  /\ m_pc = "wl_write"
  /\ fs_watchlist' = WrittenFile(g_tracks, g_anchors)
  /\ \E path \in {"reset", "reboot"} :
       /\ saved' = [path |-> path, tracks |-> g_tracks, anchors |-> g_anchors]
       /\ m_pc' = IF path = "reset" THEN "wl_reset" ELSE "wl_reboot"
  /\ last' = "written"
  /\ UNCHANGED <<sd, g_lock, p_loc, m_loc, h_aux, g_tracks, g_anchors, g_next_index, g_seg, g_current_window,
                 g_window_unique_hits, g_gps, g_obs_q, now, cb, radio_on, p_pc, p_obs, p_ts,
                 ui_items, obs_left, ui_left, h_accepted, h_applied>>

\* reset(), the whole call
WlReset ==
  /\ m_pc = "wl_reset"
  /\ g_obs_q' = <<>>
  /\ g_tracks' = reset_tracks(g_tracks)
  /\ g_anchors' = reset_anchors(g_anchors)
  /\ g_next_index' = RecomputeNextIndex(g_tracks', g_anchors')
  /\ g_seg' = reset_seg(g_seg)
  /\ g_current_window' = 0
  /\ g_window_unique_hits' = 0
  /\ m_pc' = "wl_read"
  /\ last' = "reset"
  /\ UNCHANGED <<sd, g_lock, p_loc, m_loc, h_aux, g_gps, fs_watchlist, now, cb, radio_on, p_pc, p_obs, p_ts,
                 ui_items, obs_left, ui_left, h_accepted, h_applied, saved>>

\* a power cycle: memory is back at its initialisers, the file stays on flash
WlReboot ==
  /\ m_pc = "wl_reboot"
  /\ g_tracks' = [i \in TrackSlots |-> TrackDefault]
  /\ g_anchors' = [i \in AnchorSlots |-> AnchorDefault]
  /\ g_next_index' = 1
  /\ g_seg' = SegDefault
  /\ g_current_window' = 0
  /\ g_window_unique_hits' = 0
  /\ g_gps' = [valid |-> FALSE, lat |-> 0, lon |-> 0]
  /\ p_pc' = "off"
  /\ radio_on' = {}
  /\ m_pc' = "wl_read"
  /\ last' = "reboot"
  /\ UNCHANGED <<sd, g_lock, p_loc, m_loc, h_aux, g_obs_q, fs_watchlist, now, cb, p_obs, p_ts,
                 ui_items, obs_left, ui_left, h_accepted, h_applied, saved>>

\* readWatchlist()
WlRead ==
  /\ m_pc = "wl_read"
  /\ LET r == readWatchlist(fs_watchlist, g_tracks, g_anchors, g_next_index, now)
     IN /\ g_tracks' = r.tracks
        /\ g_anchors' = r.anchors
        /\ g_next_index' = r.next_index
  /\ m_pc' = "wl_done"
  /\ last' = "loaded"
  /\ UNCHANGED <<sd, g_lock, p_loc, m_loc, h_aux, g_seg, g_current_window, g_window_unique_hits, g_gps, g_obs_q, fs_watchlist,
                 now, cb, radio_on, p_pc, p_obs, p_ts, ui_items, obs_left, ui_left,
                 h_accepted, h_applied, saved>>

NextWl == WlWrite \/ WlReset \/ WlReboot \/ WlRead

SpecWl == InitWl /\ [][NextWl]_vars

(* ------------------- a watch list read into full tables ---------------- *)
MaxItemsFull == 2
\* the items of a watch list: access points, tags and clients MacA and MacB
FullItems ==
  {[ItemDefault EXCEPT !.kind = Some(k), !.mac = Some(macToString(a))] :
     k \in {sWifiAp, sBleAdv, sWifiClient}, a \in Addrs}
\* what was seen before the call: nothing, or one of these
FullSeen(kinds) == {<<>>} \cup {<<MkObs(k, -60, MacA, 0, NoInfo)>> : k \in kinds}

\* the tables after up to one beacon, one advertisement and one probe
\* request of MacA were processed at time 0 and the rows in watch were put
\* on the watch list; readWatchlist is about to be called on a document of
\* up to MaxItemsFull items
InitFull ==
  /\ \E o1 \in FullSeen({"WifiApBeacon"}), o2 \in FullSeen({"BleAdv"}),
        o3 \in FullSeen({"WifiProbeReq"}), watch \in SUBSET {"ap", "first"} :
     \E t0 \in {[tracks |-> [i \in TrackSlots |-> TrackDefault],
                  anchors |-> [i \in AnchorSlots |-> AnchorDefault], next_index |-> 1]} :
     \E t1 \in {IF o1 = <<>> THEN t0
                 ELSE apply_observation(t0.tracks, t0.anchors, t0.next_index, 1, 1,
                                        [valid |-> FALSE, lat |-> 0, lon |-> 0], o1[1])} :
     \E t2 \in {IF o2 = <<>> THEN t1
                 ELSE apply_observation(t1.tracks, t1.anchors, t1.next_index, 1, 1,
                                        [valid |-> FALSE, lat |-> 0, lon |-> 0], o2[1])} :
     \E t3 \in {IF o3 = <<>> THEN t2
                 ELSE apply_observation(t2.tracks, t2.anchors, t2.next_index, 1, 1,
                                        [valid |-> FALSE, lat |-> 0, lon |-> 0], o3[1])} :
     \E u1 \in {IF "ap" \in watch /\ t3.anchors[1].in_use
                  THEN updateEntity(t3.tracks, t3.anchors, ToggleWatching(AnchorView(t3.anchors[1])))
                  ELSE <<t3.tracks, t3.anchors>>} :
     \E u2 \in {IF "first" \in watch /\ u1[1][1].in_use
                  THEN updateEntity(u1[1], u1[2], ToggleWatching(TrackView(u1[1][1], 0, 0)))
                  ELSE u1} :
       /\ g_tracks = u2[1]
       /\ g_anchors = u2[2]
       /\ g_next_index = t3.next_index
  /\ fs_watchlist \in {[state |-> "doc", items |-> items] :
                         items \in UNION {[1..n -> FullItems] : n \in 1..MaxItemsFull}}
  /\ g_gps = [valid |-> FALSE, lat |-> 0, lon |-> 0]
  /\ g_seg = SegDefault
  /\ g_current_window = 0
  /\ g_window_unique_hits = 0
  /\ g_obs_q = <<>>
  /\ now = 0
  /\ cb = [c \in Callbacks |-> NoObs]
  /\ radio_on = Callbacks
  /\ p_pc = "recv"
  /\ p_obs = NoObs
  /\ p_ts = 0
  /\ m_pc = "wl_read"
  /\ ui_items = <<>>
  /\ obs_left = 0
  /\ ui_left = 0
  /\ last = ""
  /\ h_accepted = <<>>
  /\ h_applied = <<>>
  /\ saved = [path |-> "call", tracks |-> g_tracks, anchors |-> g_anchors]
  /\ g_lock = "free"
  /\ p_loc = NoLoc
  /\ m_loc = NoLoc
  /\ h_aux = NoAux
  /\ sd = SdDefault

SpecFull == InitFull /\ [][WlRead]_vars

\* handleKeyboard, 'k': writeWatchlistKml(), its return value kept
KmlKey ==
  /\ m_pc = "wl_write"
  /\ LET r == writeWatchlistKml(sd, g_tracks, g_anchors)
     IN /\ sd' = r.sd
        /\ m_loc' = [ret |-> r.ok]
  /\ m_pc' = "wl_done"
  /\ last' = "kml"
  /\ UNCHANGED <<g_lock, p_loc, h_aux, g_tracks, g_anchors, g_next_index, g_seg,
                 g_current_window, g_window_unique_hits, g_gps, g_obs_q, fs_watchlist, now, cb,
                 radio_on, p_pc, p_obs, p_ts, ui_items, obs_left, ui_left, h_accepted,
                 h_applied, saved>>

\* the card is pulled out: setSdAvailable(false)
SdRemove ==
  /\ m_pc = "wl_write"
  /\ sd.available
  /\ sd' = [sd EXCEPT !.available = FALSE]
  /\ last' = ""
  /\ UNCHANGED <<g_lock, p_loc, m_loc, h_aux, g_tracks, g_anchors, g_next_index, g_seg,
                 g_current_window, g_window_unique_hits, g_gps, g_obs_q, fs_watchlist, now, cb,
                 radio_on, p_pc, p_obs, p_ts, m_pc, ui_items, obs_left, ui_left, h_accepted,
                 h_applied, saved>>

NextKml == KmlKey \/ SdRemove

SpecKml == InitWl /\ [][NextKml]_vars

(* ------------------------ a scan result classified --------------------- *)
InitInspect ==
  /\ g_tracks = [i \in TrackSlots |-> TrackDefault]
  /\ g_anchors = [i \in AnchorSlots |-> AnchorDefault]
  /\ g_seg = SegDefault
  /\ g_current_window = 0
  /\ g_window_unique_hits = 0
  /\ g_gps = [valid |-> FALSE, lat |-> 0, lon |-> 0]
  /\ g_obs_q = <<>>
  /\ cb = [c \in Callbacks |-> NoObs]
  /\ p_obs = NoObs
  /\ p_ts = 0
  /\ ui_items = <<>>
  /\ last = ""
  /\ h_accepted = <<>>
  /\ h_applied = <<>>
  /\ saved = NoSaved
  /\ g_lock = "free"
  /\ p_loc = NoLoc
  /\ m_loc = NoLoc
  /\ h_aux \in Advertisements
  /\ sd = SdDefault
  /\ g_next_index = 1
  /\ fs_watchlist = FileAbsent
  /\ now = 0
  /\ radio_on = {"ble"}
  /\ p_pc = "recv"
  /\ m_pc = "loop"
  /\ obs_left = 1
  /\ ui_left = 0

NextInspect == ScanResult \/ CbSend("ble")

SpecInspect == InitInspect /\ [][NextInspect]_vars

(* ------------------- the queue and its one consumer -------------------- *)
MaxObsQ == 3

\* the running system after begin() found no watch list, at time 0; what the
\* queue accepts and what process_observation applies is recorded
InitQ ==
  /\ InitCommon
  /\ g_next_index = 1
  /\ fs_watchlist = FileAbsent
  /\ now = 0
  /\ radio_on = Callbacks
  /\ p_pc = "recv"
  /\ m_pc = "loop"
  /\ obs_left = MaxObsQ
  /\ ui_left = 0

CbSendRec(c) ==
  /\ Send(c)
  /\ h_accepted' = IF Len(g_obs_q') > Len(g_obs_q) THEN Append(h_accepted, cb[c][1]) ELSE h_accepted
  /\ UNCHANGED <<h_applied, saved>>

ProcApplyRec ==
  /\ Apply
  /\ h_applied' = Append(h_applied, p_obs[1])
  /\ UNCHANGED <<h_accepted, saved>>

\* one step of processing_task
ProcStepQ ==
  \/ ProcReceive
  \/ ProcTimeout
  \/ ProcCrowd
  \/ ProcApplyRec
  \/ ProcSegment
  \/ ProcExpire

\* producers and consumer, no reset(); the clock advances
NextQ ==
  \/ Tick
  \/ \E c \in Callbacks : CbStamp(c)
  \/ \E c \in Callbacks : CbSendRec(c)
  \/ ProcStepQ

\* processing_task is an endless loop of a task of its own whose only wait
\* is the bounded xQueueReceive: it keeps taking steps
SpecQ == InitQ /\ [][NextQ]_vars /\ WF_vars(ProcStepQ)

(* ------------- the processing loop across the idle limits -------------- *)
MaxObsProc == 2

\* the seconds since boot at which the clock is looked at: an entity seen at
\* 0 is an anchor idle for the limit at Instant1 and for a second more at
\* Instant1 + 1; one seen at Instant1 + 1 is a track idle for exactly the
\* limit of its kind at the later instants, one seen at Instant1 for a second
\* more
Instant1 == ANCHOR_IDLE_SEC
LastInstant == Instant1 + 1 + TRACK_IDLE_SEC_BLE
ProcInstants == {0, Instant1, Instant1 + 1, Instant1 + 1 + TRACK_IDLE_SEC_WIFI, LastInstant}

\* a watch list that fills every slot of both tables
FileFull ==
  [state |-> "doc",
   items |-> <<[ItemDefault EXCEPT !.kind = Some(sWifiAp), !.mac = Some(macToString(MacB))],
               [ItemDefault EXCEPT !.kind = Some(sBleAdv), !.mac = Some(macToString(MacB))],
               [ItemDefault EXCEPT !.kind = Some(sWifiClient), !.mac = Some(macToString(MacB))]>>]
\* a watch list of one BLE tag
FileTag ==
  [state |-> "doc",
   items |-> <<[ItemDefault EXCEPT !.kind = Some(sBleAdv), !.mac = Some(macToString(MacB)),
                                   !.tracker_type = Some(sAirTag), !.tracker_confidence = Some(75)]>>]
ProcFiles == {FileTag, FileFull}

\* the running system at time 0, begin() having loaded the watch list
InitProcFrom(F, G, n, u) ==
  /\ \E f \in F :
     \E r \in {readWatchlist(f, [i \in TrackSlots |-> TrackDefault],
                             [i \in AnchorSlots |-> AnchorDefault], 1, 0)} :
       /\ fs_watchlist = f
       /\ g_tracks = r.tracks
       /\ g_anchors = r.anchors
       /\ g_next_index = r.next_index
  /\ g_seg = SegDefault
  /\ g_current_window = 0
  /\ g_window_unique_hits = 0
  /\ g_gps \in G
  /\ g_obs_q = <<>>
  /\ now = 0
  /\ cb = [c \in Callbacks |-> NoObs]
  /\ radio_on = Callbacks
  /\ p_pc = "recv"
  /\ p_obs = NoObs
  /\ p_ts = 0
  /\ m_pc = "loop"
  /\ ui_items = <<>>
  /\ obs_left = n
  /\ ui_left = u
  /\ last = ""
  /\ h_accepted = <<>>
  /\ h_applied = <<>>
  /\ saved = NoSaved
  /\ g_lock = "free"
  /\ p_loc = NoLoc
  /\ m_loc = NoLoc
  /\ h_aux = NoAux
  /\ sd = SdDefault

InitProc == InitProcFrom(ProcFiles, {[valid |-> FALSE, lat |-> 0, lon |-> 0]}, MaxObsProc, 0)

TickProc == TickTo(ProcInstants)

\* one step of processing_task
ProcStep ==
  \/ ProcReceive
  \/ ProcTimeout
  \/ ProcCrowd
  \/ ProcApply
  \/ ProcSegment
  \/ ProcExpire

NextProc ==
  \/ TickProc
  \/ \E c \in Callbacks : CbStamp(c)
  \/ \E c \in Callbacks : CbSend(c)
  \/ ProcStep

\* processing_task keeps taking steps and the clock keeps advancing
SpecProc == InitProc /\ [][NextProc]_vars /\ WF_vars(ProcStep) /\ WF_vars(TickProc)

(* ------------------ a watch list naming an entity twice ---------------- *)
\* a watch list that lists tag MacB twice, the second time with a position,
\* and access point MacA twice
FileDup ==
  [state |-> "doc",
   items |-> <<[ItemDefault EXCEPT !.kind = Some(sBleAdv), !.mac = Some(macToString(MacB))],
               [ItemDefault EXCEPT !.kind = Some(sWifiAp), !.mac = Some(macToString(MacA))],
               [ItemDefault EXCEPT !.kind = Some(sBleAdv), !.mac = Some(macToString(MacB)),
                                   !.lat = Some(PrintCoord(FixA.lat)), !.lon = Some(PrintCoord(FixA.lon))],
               [ItemDefault EXCEPT !.kind = Some(sWifiAp), !.mac = Some(macToString(MacA))]>>]

InitDup ==
  /\ InitCommon
  /\ g_next_index = 1
  /\ fs_watchlist = FileDup
  /\ now = 0
  /\ radio_on = {}
  /\ p_pc = "off"
  /\ m_pc = "begin_wifi"
  /\ obs_left = MaxObs
  /\ ui_left = MaxUiOps

SpecDup == InitDup /\ [][Next]_vars

(* ------------------------ slots handed out ----------------------------- *)
MaxObsAlloc == 3
\* the seconds since boot at which the clock is looked at: inside the first
\* window and in the second
AllocInstants == {0, 12}
\* what the radio callbacks can produce at ts_s: beside WifiObs and BleObs a
\* beacon of a second access point
AllocObs(c, ts_s) ==
  IF c = "wifi" THEN WifiObs(ts_s) \cup {MkObs("WifiApBeacon", -70, MacB, ts_s, NoInfo)}
  ELSE BleObs(ts_s)

\* the running system at time 0 with or without a fix, begin() having found
\* no watch list or one of a BLE tag
InitAlloc == InitProcFrom({FileAbsent, FileTag}, GpsInputs, MaxObsAlloc, 0)

TickAlloc == TickTo(AllocInstants)
CbStampAlloc(c) == StampFrom(c, AllocObs(c, now))

NextAlloc ==
  \/ TickAlloc
  \/ \E c \in Callbacks : CbStampAlloc(c)
  \/ \E c \in Callbacks : CbSend(c)
  \/ ProcStep

SpecAlloc == InitAlloc /\ [][NextAlloc]_vars

(* --------------------- a tag seen across segments ---------------------- *)
MaxObsHits == 3
MaxUiOpsHits == 2
\* the seconds since boot at which the clock is looked at, GPS_SEG_MIN_SEC
\* apart
HitsInstants == {0, 10, 20}
\* two fixes more than GPS_SEG_DIST_CM apart
HitsGpsInputs == {[valid |-> TRUE, lat |-> f.lat, lon |-> f.lon] : f \in {FixA, FixB}}

\* the running system at time 0 with the fix FixA, begin() having found no
\* watch list or one of tag MacB
InitHits ==
  InitProcFrom({FileAbsent, FileTag}, {[valid |-> TRUE, lat |-> FixA.lat, lon |-> FixA.lon]},
               MaxObsHits, MaxUiOpsHits)

TickHits == TickTo(HitsInstants)
\* the scan callback sees tag MacB
CbStampHits == StampFrom("ble", {MkObs("BleAdv", -60, MacB, now, TagInfo)})
UiSetGpsFixHits == SetGpsFixFrom(HitsGpsInputs)

NextHits ==
  \/ TickHits
  \/ CbStampHits
  \/ CbSend("ble")
  \/ UiSetGpsFixHits
  \/ UiResetQueue
  \/ UiResetTables
  \/ ProcStep

SpecHits == InitHits /\ [][NextHits]_vars

(* ------------------------- ESC while receiving ------------------------- *)
MaxObsReset == 2
\* the running system at time 0 with empty tables; the user presses ESC once
InitReset ==
  InitProcFrom({FileAbsent}, {[valid |-> FALSE, lat |-> 0, lon |-> 0]}, MaxObsReset, 1)

\* the radio sources see nothing more once reset() has been called, so every
\* observation in a callback, in the queue or in processing_task from then
\* on was produced before the call
CbStampReset(c) == ui_left > 0 /\ CbStamp(c)

NextReset ==
  \/ \E c \in Callbacks : CbStampReset(c)
  \/ \E c \in Callbacks : CbSend(c)
  \/ UiResetQueue
  \/ UiResetTables
  \/ ProcStep

SpecReset == InitReset /\ [][NextReset]_vars

(* ------------------- segmentation, second by second -------------------- *)
MaxUiOpsGps == 3
MaxObsFp == 2
MaxUiOpsFp == 2

\* the seconds since boot at which the clock is looked at: 10 is 10 s after
\* 0 and 9 s after 1, 30 is 29 s after 1, 31 is 30 s after 1
SegInstants == {0, 1, 10, 30, 31}

\* GNSS positions north of FixA: SegNear by 49.99 m, SegFar by 50.00 m
SegNear == [lat |-> FixA.lat + 449600, lon |-> FixA.lon]
SegFar == [lat |-> FixA.lat + 449700, lon |-> FixA.lon]
SegGpsInputs ==
  {[valid |-> FALSE, lat |-> 0, lon |-> 0]}
    \cup {[valid |-> TRUE, lat |-> f.lat, lon |-> f.lon] : f \in {FixA, SegNear, SegFar}}

\* the beacons the promiscuous callback can see at ts_s
SegBeacons(ts_s) == {MkObs("WifiApBeacon", -60, a, ts_s, NoInfo) : a \in Addrs}

\* the running system at time 0, begin() having found no watch list; the
\* radios are quiet and the main loop passes GNSS fixes
InitGps ==
  /\ fs_watchlist = FileAbsent
  /\ g_tracks = [i \in TrackSlots |-> TrackDefault]
  /\ g_anchors = [i \in AnchorSlots |-> AnchorDefault]
  /\ g_next_index = 1
  /\ obs_left = 0
  /\ ui_left = MaxUiOpsGps
  /\ g_seg = SegDefault
  /\ g_current_window = 0
  /\ g_window_unique_hits = 0
  /\ g_gps = [valid |-> FALSE, lat |-> 0, lon |-> 0]
  /\ g_obs_q = <<>>
  /\ now = 0
  /\ cb = [c \in Callbacks |-> NoObs]
  /\ radio_on = Callbacks
  /\ p_pc = "recv"
  /\ p_obs = NoObs
  /\ p_ts = 0
  /\ m_pc = "loop"
  /\ ui_items = <<>>
  /\ last = ""
  /\ h_accepted = <<>>
  /\ h_applied = <<>>
  /\ saved = NoSaved
  /\ g_lock = "free"
  /\ p_loc = NoLoc
  /\ m_loc = NoLoc
  /\ h_aux = NoAux
  /\ sd = SdDefault

\* the same start with access points in range and a receiver that gets and
\* loses its fix
InitFp ==
  /\ fs_watchlist = FileAbsent
  /\ g_tracks = [i \in TrackSlots |-> TrackDefault]
  /\ g_anchors = [i \in AnchorSlots |-> AnchorDefault]
  /\ g_next_index = 1
  /\ obs_left = MaxObsFp
  /\ ui_left = MaxUiOpsFp
  /\ g_seg = SegDefault
  /\ g_current_window = 0
  /\ g_window_unique_hits = 0
  /\ g_gps = [valid |-> FALSE, lat |-> 0, lon |-> 0]
  /\ g_obs_q = <<>>
  /\ now = 0
  /\ cb = [c \in Callbacks |-> NoObs]
  /\ radio_on = Callbacks
  /\ p_pc = "recv"
  /\ p_obs = NoObs
  /\ p_ts = 0
  /\ m_pc = "loop"
  /\ ui_items = <<>>
  /\ last = ""
  /\ h_accepted = <<>>
  /\ h_applied = <<>>
  /\ saved = NoSaved
  /\ g_lock = "free"
  /\ p_loc = NoLoc
  /\ m_loc = NoLoc
  /\ h_aux = NoAux
  /\ sd = SdDefault

TickSeg == TickTo(SegInstants)
CbStampSeg == StampFrom("wifi", SegBeacons(now))
UiSetGpsFixSeg == SetGpsFixFrom(SegGpsInputs)

NextGps ==
  \/ TickSeg
  \/ UiSetGpsFixSeg
  \/ ProcTimeout
  \/ ProcSegment
  \/ ProcExpire

SpecGps == InitGps /\ [][NextGps]_vars

NextFp ==
  \/ TickSeg
  \/ CbStampSeg
  \/ CbSend("wifi")
  \/ UiSetGpsFix
  \/ ProcStep

SpecFp == InitFp /\ [][NextFp]_vars /\ WF_vars(ProcStep) /\ WF_vars(TickSeg)

(* -------------- a fix that comes and goes, ESC in between -------------- *)
MaxObsMode == 1
MaxUiOpsMode == 3
\* the seconds since boot at which the clock is looked at
ModeInstants == {1, 31}
\* no fix, FixA, and SegFar 50.00 m north of it
ModeGpsInputs ==
  {[valid |-> FALSE, lat |-> 0, lon |-> 0]}
    \cup {[valid |-> TRUE, lat |-> f.lat, lon |-> f.lon] : f \in {FixA, SegFar}}

\* the running system at time 0 with empty tables, with or without a fix
InitMode == InitProcFrom({FileAbsent}, ModeGpsInputs, MaxObsMode, MaxUiOpsMode)

TickMode == TickTo(ModeInstants)
UiSetGpsFixMode == SetGpsFixFrom(ModeGpsInputs)

NextMode ==
  \/ TickMode
  \/ CbStampSeg
  \/ CbSend("wifi")
  \/ UiSetGpsFixMode
  \/ UiResetQueue
  \/ UiResetTables
  \/ ProcStep

SpecMode == InitMode /\ [][NextMode]_vars

(* ------------------ a tag classified again and again ------------------- *)
MaxObsConf == 3
\* classifier outputs BleTracker::Inspect can return: nothing recognised, a
\* SmartThings tag by its service, the same with its subtype, a Find Hub
\* tag with its maker
ConfInfos ==
  {NoInfo, TagInfo,
   Info("SmartThingsFind", "Unknown", "SmartTag2", 60),
   Info("GoogleFindHub", "Motorola", "Unknown", 40)}

\* the running system at time 0 without a fix, begin() having found no
\* watch list or one of tag MacB
InitConf ==
  InitProcFrom({FileAbsent, FileTag}, {[valid |-> FALSE, lat |-> 0, lon |-> 0]}, MaxObsConf, 0)

\* the scan callback sees advertiser MacA or tag MacB
CbStampConf ==
  StampFrom("ble", {MkObs("BleAdv", -60, a, now, i) : a \in Addrs, i \in ConfInfos})

NextConf ==
  \/ CbStampConf
  \/ CbSendRec("ble")
  \/ ProcStepQ

SpecConf == InitConf /\ [][NextConf]_vars

(* ------------- an access point passed with and without a fix ----------- *)
MaxObsBest == 3
MaxUiOpsBest == 2
\* no fix, FixA, FixB
BestGpsInputs ==
  {[valid |-> FALSE, lat |-> 0, lon |-> 0]}
    \cup {[valid |-> TRUE, lat |-> f.lat, lon |-> f.lon] : f \in {FixA, FixB}}

\* the running system at time 0 with empty tables, with or without a fix
InitBest == InitProcFrom({FileAbsent}, BestGpsInputs, MaxObsBest, MaxUiOpsBest)

\* the promiscuous callback sees a beacon or a probe response of access
\* point MacA, near or mid
CbStampBest ==
  StampFrom("wifi", {MkObs(k, r, MacA, now, NoInfo) :
                       k \in {"WifiApBeacon", "WifiApProbeResp"}, r \in Rssis})
UiSetGpsFixBest == SetGpsFixFrom(BestGpsInputs)

\* process_observation, the observation and the fix it copied recorded
ProcApplyGeo ==
  /\ Apply
  /\ h_applied' = Append(h_applied, [obs |-> p_obs[1], gps |-> g_gps])
  /\ UNCHANGED <<h_accepted, saved>>

NextBest ==
  \/ CbStampBest
  \/ CbSend("wifi")
  \/ UiSetGpsFixBest
  \/ ProcReceive
  \/ ProcTimeout
  \/ ProcCrowd
  \/ ProcApplyGeo
  \/ ProcSegment
  \/ ProcExpire

SpecBest == InitBest /\ [][NextBest]_vars

(* -------------------- the watch list found at boot --------------------- *)
MaxItems == 3

\* items of a watch list: two that are well formed, and one each that is not
\* an object, has no kind, has no mac, has a kind parseKind does not know,
\* has a mac with a letter that is no hex digit, has a mac cut short
RdGoodItems ==
  {[ItemDefault EXCEPT !.kind = Some(sWifiAp), !.mac = Some(macToString(MacA))],
   [ItemDefault EXCEPT !.kind = Some(sBleAdv), !.mac = Some(macToString(MacB)),
                       !.tracker_type = Some(sAirTag), !.tracker_confidence = Some(75)]}
RdBadItems ==
  {[ItemDefault EXCEPT !.object = FALSE],
   [ItemDefault EXCEPT !.mac = Some(macToString(MacB))],
   [ItemDefault EXCEPT !.kind = Some(sWifiClient)],
   [ItemDefault EXCEPT !.kind = Some(<<"Z","i","g","b","e","e">>), !.mac = Some(macToString(MacB))],
   [ItemDefault EXCEPT !.kind = Some(sWifiClient),
                       !.mac = Some([macToString(MacB) EXCEPT ![1] = "g"])],
   [ItemDefault EXCEPT !.kind = Some(sWifiClient),
                       !.mac = Some(SubSeq(macToString(MacB), 1, 16))]}
RdItems == RdGoodItems \cup RdBadItems

\* the files begin() can find: none, one of size 0, one that is not JSON, a
\* JSON document without an items array, documents of up to MaxItems items
RdFiles ==
  {[state |-> st, items |-> <<>>] : st \in {"absent", "empty", "garbage", "noitems"}}
    \cup {[state |-> "doc", items |-> items] :
            items \in UNION {[1..n -> RdItems] : n \in 0..MaxItems}}

InitRd ==
  /\ InitCommon
  /\ g_next_index = 1
  /\ fs_watchlist \in RdFiles
  /\ now = 0
  /\ radio_on = {}
  /\ p_pc = "off"
  /\ m_pc = "begin_wifi"
  /\ obs_left = 0
  /\ ui_left = 0

\* readWatchlist() in begin(), its return value kept
RdRead ==
  /\ m_pc = "begin_read"
  /\ LET r == readWatchlist(fs_watchlist, g_tracks, g_anchors, g_next_index, now)
     IN /\ g_tracks' = r.tracks
        /\ g_anchors' = r.anchors
        /\ g_next_index' = r.next_index
        /\ m_loc' = [ret |-> r.ok]
  /\ last' = "loaded"
  /\ m_pc' = "begin_start"
  /\ UNCHANGED <<sd, g_lock, p_loc, h_aux, g_seg, g_current_window, g_window_unique_hits, g_gps,
                 g_obs_q, fs_watchlist, now, cb, radio_on, p_pc, p_obs, p_ts, ui_items,
                 obs_left, ui_left, h_accepted, h_applied, saved>>

NextRd == BeginWifi \/ BeginBle \/ RdRead \/ BeginStart

SpecRd == InitRd /\ [][NextRd]_vars

(* ------------------- watch lists written by other hands ---------------- *)
MaxItemsForm == 2
\* "AA:BB:CC:DD:EE:FF" with its letters in lower case
LowerMac(txt) == [k \in 1..Len(txt) |-> FoldChar(txt[k])]
\* the same with '-' for ':'
DashMac(txt) == [k \in 1..Len(txt) |-> IF txt[k] = ":" THEN "-" ELSE txt[k]]
\* the ways a file can spell the address MacA: as macToString prints it, in
\* lower case, with '-' separators, with a seventh byte, with a digit that
\* is none, cut short
MacForms ==
  {macToString(MacA), LowerMac(macToString(MacA)), DashMac(macToString(MacA)),
   macToString(MacA) \o <<":", "0", "0">>,
   [macToString(MacA) EXCEPT ![1] = "g"],
   SubSeq(macToString(MacA), 1, 16)}
\* the ways a file can spell a kind: the three of kindToString, one in
\* lower case, one followed by a blank, one cut short
KindForms ==
  {sWifiAp, sWifiClient, sBleAdv,
   <<"w","i","f","i","a","p">>, sBleAdv \o <<" ">>, <<"B","l","e">>}
FormItems == {[ItemDefault EXCEPT !.kind = Some(k), !.mac = Some(m)] : k \in KindForms, m \in MacForms}

\* begin() finds a document of up to MaxItemsForm such items
InitForm ==
  /\ InitCommon
  /\ g_next_index = 1
  /\ fs_watchlist \in {[state |-> "doc", items |-> items] :
                         items \in UNION {[1..n -> FormItems] : n \in 1..MaxItemsForm}}
  /\ now = 0
  /\ radio_on = {}
  /\ p_pc = "off"
  /\ m_pc = "begin_wifi"
  /\ obs_left = 0
  /\ ui_left = 0

SpecForm == InitForm /\ [][NextRd]_vars

(* ------------- two cores: the tasks statement by statement ------------- *)
MaxObsLock == 2
MaxUiOpsLock == 2

\* the seconds since boot at which the clock is looked at
LockInstants == {0, GPS_SEG_MIN_SEC}

\* FixD differs from FixA in latitude and in longitude
FixD == [lat |-> FixA.lat + 500000, lon |-> FixA.lon + 500000]
CallFixes == {FixA, FixD}
LockGpsInputs ==
  {[valid |-> FALSE, lat |-> 0, lon |-> 0]}
    \cup {[valid |-> TRUE, lat |-> f.lat, lon |-> f.lon] : f \in CallFixes}

\* what the BLE scan callback sees at ts_s: the SmartThings Find tag MacB
LockObs(ts_s) == {MkObs("BleAdv", -60, MacB, ts_s, TagInfo)}

\* the locals of a processing_task call: the GNSS fix as read so far (n of
\* the two coordinates), the slot find_or_alloc returned
LocDefault == [valid |-> FALSE, lat |-> 0, lon |-> 0, n |-> 0, slot |-> 0]
\* the arguments and locals of a facade call made by the main task
CallDefault == [g |-> [valid |-> FALSE, lat |-> 0, lon |-> 0], ratio |-> 0, rows |-> <<>>]
\* the tables before and after the process_observation call in progress
\* (twice the same tables when none is)
Around(tracks, anchors) == [pre |-> <<tracks, anchors>>, post |-> <<tracks, anchors>>]

\* vars in groups
ioVars == <<sd, g_obs_q, fs_watchlist, now, cb, radio_on, obs_left, h_accepted, h_applied, saved>>
mainVars == <<m_pc, ui_items, ui_left, m_loc>>
tblVars == <<g_tracks, g_anchors, g_next_index>>
crowdVars == <<g_current_window, g_window_unique_hits>>

InitLock ==
  /\ fs_watchlist = FileAbsent
  /\ g_tracks = [i \in TrackSlots |-> TrackDefault]
  /\ g_anchors = [i \in AnchorSlots |-> AnchorDefault]
  /\ g_next_index = 1
  /\ g_seg = SegDefault
  /\ g_current_window = 0
  /\ g_window_unique_hits = 0
  /\ g_gps = [valid |-> FALSE, lat |-> 0, lon |-> 0]
  /\ g_obs_q = <<>>
  /\ now = 0
  /\ cb = [c \in Callbacks |-> NoObs]
  /\ radio_on = Callbacks
  /\ p_pc = "recv"
  /\ p_obs = NoObs
  /\ p_ts = 0
  /\ m_pc = "loop"
  /\ ui_items = <<>>
  /\ obs_left = MaxObsLock
  /\ ui_left = MaxUiOpsLock
  /\ last = ""
  /\ h_accepted = <<>>
  /\ h_applied = <<>>
  /\ saved = NoSaved
  /\ g_lock = "free"
  /\ p_loc = LocDefault
  /\ m_loc = CallDefault
  /\ h_aux = Around(g_tracks, g_anchors)
  /\ sd = SdDefault

\* portENTER_CRITICAL(&g_lock) returns once no other task is inside
\* a critical section that excludes nobody
CanEnterAlways(task) == TRUE
CanEnter(task) == g_lock = "free"

\* process_observation line 496
PoEnter ==
  /\ p_pc = "apply"
  /\ CanEnter("proc")
  /\ g_lock' = "proc"
  /\ p_loc' = LocDefault
  /\ h_aux' = LET r == apply_observation(g_tracks, g_anchors, g_next_index, g_seg.segment_id,
                                         g_window_unique_hits, g_gps, p_obs[1])
              IN [pre |-> <<g_tracks, g_anchors>>, post |-> <<r.tracks, r.anchors>>]
  /\ p_pc' = "po_gps_valid"
  /\ last' = ""
  /\ UNCHANGED <<ioVars, mainVars, tblVars, crowdVars, g_seg, g_gps, p_obs, p_ts>>

\* line 499: gps_valid = g_gps_valid
PoGpsValid ==
  /\ p_pc = "po_gps_valid"
  /\ p_loc' = [p_loc EXCEPT !.valid = g_gps.valid]
  /\ p_pc' = "po_gps_lat"
  /\ last' = ""
  /\ UNCHANGED <<ioVars, mainVars, tblVars, crowdVars, g_seg, g_gps, p_obs, p_ts, g_lock, h_aux>>

\* line 500: gps_lat = g_gps_lat
PoGpsLat ==
  /\ p_pc = "po_gps_lat"
  /\ p_loc' = [p_loc EXCEPT !.lat = g_gps.lat, !.n = 1]
  /\ p_pc' = "po_gps_lon"
  /\ last' = ""
  /\ UNCHANGED <<ioVars, mainVars, tblVars, crowdVars, g_seg, g_gps, p_obs, p_ts, g_lock, h_aux>>

\* line 501: gps_lon = g_gps_lon
PoGpsLon ==
  /\ p_pc = "po_gps_lon"
  /\ p_loc' = [p_loc EXCEPT !.lon = g_gps.lon, !.n = 2]
  /\ p_pc' = "po_find"
  /\ last' = ""
  /\ UNCHANGED <<ioVars, mainVars, tblVars, crowdVars, g_seg, g_gps, p_obs, p_ts, g_lock, h_aux>>

\* lines 505-506, 518-519, 547-548: find_or_alloc_*; break on nullptr
PoFind ==
  /\ p_pc = "po_find"
  /\ LET obs == p_obs[1]
     IN IF obs.kind \in {"WifiProbeReq", "BleAdv"}
          THEN LET r == find_or_alloc_track(g_tracks, g_next_index, g_seg.segment_id,
                                            IF obs.kind = "BleAdv" THEN "BleAdv" ELSE "WifiClient",
                                            obs.addr, obs.ts_s)
               IN /\ g_tracks' = r.tracks
                  /\ g_anchors' = g_anchors
                  /\ g_next_index' = r.next_index
                  /\ p_loc' = [p_loc EXCEPT !.slot = r.slot]
        ELSE LET r == find_or_alloc_anchor(g_anchors, g_next_index, obs.addr, obs.ts_s)
             IN /\ g_tracks' = g_tracks
                /\ g_anchors' = r.anchors
                /\ g_next_index' = r.next_index
                /\ p_loc' = [p_loc EXCEPT !.slot = r.slot]
  /\ p_pc' = IF p_loc'.slot = 0 THEN "po_exit" ELSE "po_update"
  /\ last' = ""
  /\ UNCHANGED <<ioVars, mainVars, crowdVars, g_seg, g_gps, p_obs, p_ts, g_lock, h_aux>>

\* lines 507, 520: update_track_from_obs; lines 549-550 for an anchor
PoUpdate ==
  /\ p_pc = "po_update"
  /\ LET obs == p_obs[1]
     IN IF obs.kind \in {"WifiProbeReq", "BleAdv"}
          THEN /\ g_tracks' = [g_tracks EXCEPT ![p_loc.slot] =
                                 update_track_from_obs(@, obs.rssi_dbm, obs.ts_s,
                                                       g_window_unique_hits, g_seg.segment_id)]
               /\ g_anchors' = g_anchors
        ELSE /\ g_anchors' = [g_anchors EXCEPT ![p_loc.slot] =
                                [@ EXCEPT !.last_seen_s = obs.ts_s, !.last_rssi = obs.rssi_dbm]]
             /\ g_tracks' = g_tracks
  /\ p_pc' = "po_geo"
  /\ last' = ""
  /\ UNCHANGED <<ioVars, mainVars, crowdVars, g_next_index, g_seg, g_gps, p_obs, p_ts, g_lock,
                 p_loc, h_aux>>

\* lines 510-513, 523-526: stamp_last_geo; lines 558-576 for an anchor
PoGeo ==
  /\ p_pc = "po_geo"
  /\ LET obs == p_obs[1]
     IN IF obs.kind \in {"WifiProbeReq", "BleAdv"}
          THEN /\ g_tracks' = IF p_loc.valid
                                THEN [g_tracks EXCEPT ![p_loc.slot] =
                                        stamp_last_geo(@, obs.ts_s, p_loc.lat, p_loc.lon)]
                              ELSE g_tracks
               /\ g_anchors' = g_anchors
        ELSE /\ g_anchors' = [g_anchors EXCEPT ![p_loc.slot] =
                                update_anchor_from_obs(@, obs, [valid |-> p_loc.valid,
                                                                lat |-> p_loc.lat,
                                                                lon |-> p_loc.lon])]
             /\ g_tracks' = g_tracks
  /\ p_pc' = IF p_obs[1].kind = "BleAdv" THEN "po_tracker" ELSE "po_exit"
  /\ last' = ""
  /\ UNCHANGED <<ioVars, mainVars, crowdVars, g_next_index, g_seg, g_gps, p_obs, p_ts, g_lock,
                 p_loc, h_aux>>

\* lines 529-543: the classifier results
PoTracker ==
  /\ p_pc = "po_tracker"
  /\ g_tracks' = [g_tracks EXCEPT ![p_loc.slot] = merge_tracker(@, p_obs[1])]
  /\ p_pc' = "po_exit"
  /\ last' = ""
  /\ UNCHANGED <<ioVars, mainVars, crowdVars, g_anchors, g_next_index, g_seg, g_gps, p_obs, p_ts,
                 g_lock, p_loc, h_aux>>

\* line 580: portEXIT_CRITICAL(&g_lock)
PoExit ==
  /\ p_pc = "po_exit"
  /\ g_lock' = "free"
  /\ h_aux' = Around(g_tracks, g_anchors)
  /\ p_obs' = NoObs
  /\ p_pc' = "segment"
  /\ last' = ""
  /\ UNCHANGED <<ioVars, mainVars, tblVars, crowdVars, g_seg, g_gps, p_ts, p_loc>>

\* ts_s = now_s(); maybe_advance_segment lines 405-406, 415 and, without a
\* fix, lines 429-444
MsValid ==
  /\ p_pc = "segment"
  /\ p_ts' = now
  /\ p_loc' = [LocDefault EXCEPT !.valid = g_gps.valid]
  /\ IF ~g_gps.valid
       THEN /\ g_seg' = maybe_advance_segment(g_seg, [valid |-> FALSE, lat |-> 0, lon |-> 0],
                                              g_anchors, now)
            /\ p_pc' = "expire"
     ELSE IF ~g_seg.gps_anchor_valid
       THEN /\ g_seg' = [g_seg EXCEPT !.gps_anchor_valid = TRUE]
            /\ p_pc' = "ms_store_lat"
     ELSE /\ g_seg' = g_seg
          /\ p_pc' = IF SubU32(now, g_seg.last_gps_seg_s) >= GPS_SEG_MIN_SEC
                       THEN "ms_dist_lat" ELSE "expire"
  /\ last' = ""
  /\ UNCHANGED <<ioVars, mainVars, tblVars, crowdVars, g_gps, p_obs, g_lock, h_aux>>

\* line 416: the argument g_gps_lat
MsDistLat ==
  /\ p_pc = "ms_dist_lat"
  /\ p_loc' = [p_loc EXCEPT !.lat = g_gps.lat, !.n = 1]
  /\ p_pc' = "ms_dist_lon"
  /\ last' = ""
  /\ UNCHANGED <<ioVars, mainVars, tblVars, crowdVars, g_seg, g_gps, p_obs, p_ts, g_lock, h_aux>>

\* lines 416-419: the argument g_gps_lon, haversine_m, the counters
MsDistLon ==
  /\ p_pc = "ms_dist_lon"
  /\ p_loc' = [p_loc EXCEPT !.lon = g_gps.lon, !.n = 2]
  /\ IF haversine_sq(g_seg.gps_anchor_lat, g_seg.gps_anchor_lon, p_loc.lat, g_gps.lon)
          >= GPS_SEG_DIST_CM * GPS_SEG_DIST_CM
       THEN /\ g_seg' = [g_seg EXCEPT !.segment_id = @ + 1, !.move_segments = @ + 1]
            /\ p_pc' = "ms_store_lat"
     ELSE /\ g_seg' = g_seg
          /\ p_pc' = "expire"
  /\ last' = ""
  /\ UNCHANGED <<ioVars, mainVars, tblVars, crowdVars, g_gps, p_obs, p_ts, g_lock, h_aux>>

\* lines 408, 420: g_gps_anchor_lat = g_gps_lat
MsStoreLat ==
  /\ p_pc = "ms_store_lat"
  /\ g_seg' = [g_seg EXCEPT !.gps_anchor_lat = g_gps.lat]
  /\ p_loc' = [p_loc EXCEPT !.lat = g_gps.lat, !.n = 1]
  /\ p_pc' = "ms_store_lon"
  /\ last' = ""
  /\ UNCHANGED <<ioVars, mainVars, tblVars, crowdVars, g_gps, p_obs, p_ts, g_lock, h_aux>>

\* lines 409-410, 421-422: g_gps_anchor_lon = g_gps_lon; g_last_gps_seg_s = ts_s
MsStoreLon ==
  /\ p_pc = "ms_store_lon"
  /\ g_seg' = [g_seg EXCEPT !.gps_anchor_lon = g_gps.lon, !.last_gps_seg_s = p_ts]
  /\ p_loc' = [p_loc EXCEPT !.lon = g_gps.lon, !.n = 2]
  /\ p_pc' = "expire"
  /\ last' = ""
  /\ UNCHANGED <<ioVars, mainVars, tblVars, crowdVars, g_gps, p_obs, p_ts, g_lock, h_aux>>

\* expire_tables line 448
ExEnter ==
  /\ p_pc = "expire"
  /\ CanEnter("proc")
  /\ g_lock' = "proc"
  /\ p_pc' = "ex_tables"
  /\ last' = ""
  /\ UNCHANGED <<ioVars, mainVars, tblVars, crowdVars, g_seg, g_gps, p_obs, p_ts, p_loc, h_aux>>

\* lines 450-471: both loops and portEXIT_CRITICAL
ExTables ==
  /\ p_pc = "ex_tables"
  /\ g_tracks' = expire_tracks(g_tracks, p_ts)
  /\ g_anchors' = expire_anchors(g_anchors, p_ts)
  /\ h_aux' = Around(g_tracks', g_anchors')
  /\ g_lock' = "free"
  /\ p_pc' = "recv"
  /\ last' = ""
  /\ UNCHANGED <<ioVars, mainVars, crowdVars, g_next_index, g_seg, g_gps, p_obs, p_ts, p_loc>>

\* loop(): g_tracker.setGpsFix(s.valid, s.lat, s.lon), line 898
SgEnter ==
  /\ m_pc = "loop"
  /\ ui_left > 0
  /\ CanEnter("main")
  /\ \E g \in LockGpsInputs :
       /\ g.valid # g_gps.valid \/ (g.valid /\ g # g_gps)
       /\ m_loc' = [m_loc EXCEPT !.g = g]
  /\ g_lock' = "main"
  /\ ui_left' = ui_left - 1
  /\ m_pc' = "sg_valid"
  /\ last' = ""
  /\ UNCHANGED <<ioVars, tblVars, crowdVars, g_seg, g_gps, p_pc, p_obs, p_ts, p_loc, ui_items, h_aux>>

\* lines 899-900, 903-904: g_gps_valid = valid; g_gps_anchor_valid = false
SgValid ==
  /\ m_pc = "sg_valid"
  /\ g_gps' = [g_gps EXCEPT !.valid = m_loc.g.valid]
  /\ g_seg' = IF m_loc.g.valid THEN g_seg ELSE [g_seg EXCEPT !.gps_anchor_valid = FALSE]
  /\ m_pc' = IF m_loc.g.valid THEN "sg_lat" ELSE "sg_exit"
  /\ last' = ""
  /\ UNCHANGED <<ioVars, tblVars, crowdVars, p_pc, p_obs, p_ts, p_loc, ui_items, ui_left, m_loc,
                 g_lock, h_aux>>

\* line 901: g_gps_lat = lat
SgLat ==
  /\ m_pc = "sg_lat"
  /\ g_gps' = [g_gps EXCEPT !.lat = m_loc.g.lat]
  /\ m_pc' = "sg_lon"
  /\ last' = ""
  /\ UNCHANGED <<ioVars, tblVars, crowdVars, g_seg, p_pc, p_obs, p_ts, p_loc, ui_items, ui_left,
                 m_loc, g_lock, h_aux>>

\* line 902: g_gps_lon = lon
SgLon ==
  /\ m_pc = "sg_lon"
  /\ g_gps' = [g_gps EXCEPT !.lon = m_loc.g.lon]
  /\ m_pc' = "sg_exit"
  /\ last' = ""
  /\ UNCHANGED <<ioVars, tblVars, crowdVars, g_seg, p_pc, p_obs, p_ts, p_loc, ui_items, ui_left,
                 m_loc, g_lock, h_aux>>

\* line 906: portEXIT_CRITICAL(&g_lock)
SgExit ==
  /\ m_pc = "sg_exit"
  /\ g_lock' = "free"
  /\ m_pc' = "loop"
  /\ last' = ""
  /\ UNCHANGED <<ioVars, tblVars, crowdVars, g_seg, g_gps, p_pc, p_obs, p_ts, p_loc, ui_items,
                 ui_left, m_loc, h_aux>>

\* UIGrid::update: buildSnapshot lines 911-913
BsEnter ==
  /\ m_pc = "loop"
  /\ ui_left > 0
  /\ CanEnter("main")
  /\ \E ratio \in Ratios : m_loc' = [m_loc EXCEPT !.ratio = ratio, !.rows = <<>>]
  /\ g_lock' = "main"
  /\ ui_left' = ui_left - 1
  /\ m_pc' = "bs_collect"
  /\ last' = ""
  /\ UNCHANGED <<ioVars, tblVars, crowdVars, g_seg, g_gps, p_pc, p_obs, p_ts, p_loc, ui_items, h_aux>>

\* lines 916-982: the rows of both tables
BsCollect ==
  /\ m_pc = "bs_collect"
  /\ m_loc' = [m_loc EXCEPT !.rows = CollectRows(g_tracks, g_anchors, UI_MAX_OUT, m_loc.ratio,
                                                 g_seg.move_segments)]
  /\ m_pc' = "bs_exit"
  /\ last' = ""
  /\ UNCHANGED <<ioVars, tblVars, crowdVars, g_seg, g_gps, p_pc, p_obs, p_ts, p_loc, ui_items,
                 ui_left, g_lock, h_aux>>

\* line 984: portEXIT_CRITICAL(&g_lock)
BsExit ==
  /\ m_pc = "bs_exit"
  /\ g_lock' = "free"
  /\ m_pc' = "bs_stats"
  /\ last' = ""
  /\ UNCHANGED <<ioVars, tblVars, crowdVars, g_seg, g_gps, p_pc, p_obs, p_ts, p_loc, ui_items,
                 ui_left, m_loc, h_aux>>

\* lines 986-1000: std::sort, then g_segment_id, g_move_segments and
\* g_last_env_tick_s are read for the status line
BsStats ==
  /\ m_pc = "bs_stats"
  /\ ui_items' = SortRows(m_loc.rows)
  /\ m_pc' = "loop"
  /\ last' = ""
  /\ UNCHANGED <<ioVars, tblVars, crowdVars, g_seg, g_gps, p_pc, p_obs, p_ts, p_loc, ui_left,
                 m_loc, g_lock, h_aux>>

\* the statements of processing_task that read or write the tables, the
\* segmentation state, the crowd counters or the GNSS fix, by the place the
\* task is at before them
ProcAccessPcs ==
  {"crowd", "po_gps_valid", "po_gps_lat", "po_gps_lon", "po_find", "po_update", "po_geo",
   "po_tracker", "segment", "ms_dist_lat", "ms_dist_lon", "ms_store_lat", "ms_store_lon",
   "ex_tables"}
\* the same for the facade calls of the main task
MainAccessPcs == {"sg_valid", "sg_lat", "sg_lon", "bs_collect", "bs_stats"}

TickLock == TickTo(LockInstants)
CbStampLock == StampFrom("ble", LockObs(now))

ProcStepLock ==
  \/ ProcReceive
  \/ ProcTimeout
  \/ ProcCrowd
  \/ PoEnter
  \/ PoGpsValid
  \/ PoGpsLat
  \/ PoGpsLon
  \/ PoFind
  \/ PoUpdate
  \/ PoGeo
  \/ PoTracker
  \/ PoExit
  \/ MsValid
  \/ MsDistLat
  \/ MsDistLon
  \/ MsStoreLat
  \/ MsStoreLon
  \/ ExEnter
  \/ ExTables

MainStepLock ==
  \/ SgEnter
  \/ SgValid
  \/ SgLat
  \/ SgLon
  \/ SgExit
  \/ BsEnter
  \/ BsCollect
  \/ BsExit
  \/ BsStats

NextLock ==
  \/ TickLock
  \/ CbStampLock
  \/ CbSend("ble")
  \/ ProcStepLock
  \/ MainStepLock

\* both tasks keep running, each on its own core
SpecLock == InitLock /\ [][NextLock]_vars /\ WF_vars(ProcStepLock) /\ WF_vars(MainStepLock)

(* --------------- ESC while the segment counters are written ------------ *)
MaxUiOpsRace == 2

\* the running system at time 0 with the fix FixA and empty tables; the
\* radios are quiet
InitRace ==
  /\ fs_watchlist = FileAbsent
  /\ g_tracks = [i \in TrackSlots |-> TrackDefault]
  /\ g_anchors = [i \in AnchorSlots |-> AnchorDefault]
  /\ g_next_index = 1
  /\ g_seg = SegDefault
  /\ g_current_window = 0
  /\ g_window_unique_hits = 0
  /\ g_gps = [valid |-> TRUE, lat |-> FixA.lat, lon |-> FixA.lon]
  /\ g_obs_q = <<>>
  /\ now = 0
  /\ cb = [c \in Callbacks |-> NoObs]
  /\ radio_on = Callbacks
  /\ p_pc = "recv"
  /\ p_obs = NoObs
  /\ p_ts = 0
  /\ m_pc = "loop"
  /\ ui_items = <<>>
  /\ obs_left = 0
  /\ ui_left = MaxUiOpsRace
  /\ last = ""
  /\ h_accepted = <<>>
  /\ h_applied = <<>>
  /\ saved = NoSaved
  /\ g_lock = "free"
  /\ p_loc = LocDefault
  /\ m_loc = CallDefault
  /\ h_aux = Around(g_tracks, g_anchors)
  /\ sd = SdDefault

\* lines 416-417: the argument g_gps_lon, haversine_m, the comparison
MsDist ==
  /\ p_pc = "ms_dist_lon"
  /\ p_loc' = [p_loc EXCEPT !.lon = g_gps.lon, !.n = 2]
  /\ p_pc' = IF haversine_sq(g_seg.gps_anchor_lat, g_seg.gps_anchor_lon, p_loc.lat, g_gps.lon)
                  >= GPS_SEG_DIST_CM * GPS_SEG_DIST_CM
               THEN "ms_segment_id" ELSE "expire"
  /\ last' = ""
  /\ UNCHANGED <<ioVars, mainVars, tblVars, crowdVars, g_seg, g_gps, p_obs, p_ts, g_lock, h_aux>>

\* line 418: g_segment_id++
MsSegmentId ==
  /\ p_pc = "ms_segment_id"
  /\ g_seg' = [g_seg EXCEPT !.segment_id = @ + 1]
  /\ p_pc' = "ms_move_segments"
  /\ last' = ""
  /\ UNCHANGED <<ioVars, mainVars, tblVars, crowdVars, g_gps, p_obs, p_ts, p_loc, g_lock, h_aux>>

\* line 419: g_move_segments++
MsMoveSegments ==
  /\ p_pc = "ms_move_segments"
  /\ g_seg' = [g_seg EXCEPT !.move_segments = @ + 1]
  /\ p_pc' = "ms_store_lat"
  /\ last' = "advance"
  /\ UNCHANGED <<ioVars, mainVars, tblVars, crowdVars, g_gps, p_obs, p_ts, p_loc, g_lock, h_aux>>

\* UIGrid on ESC: reset() lines 1046-1048, xQueueReset
RsQueue ==
  /\ m_pc = "loop"
  /\ ui_left > 0
  /\ g_obs_q' = <<>>
  /\ ui_left' = ui_left - 1
  /\ m_pc' = "rs_enter"
  /\ last' = ""
  /\ UNCHANGED <<sd, fs_watchlist, now, cb, radio_on, obs_left, h_accepted, h_applied, saved,
                 tblVars, crowdVars, g_seg, g_gps, p_pc, p_obs, p_ts, p_loc, ui_items, m_loc,
                 g_lock, h_aux>>

\* line 1050: portENTER_CRITICAL(&g_lock)
RsEnter ==
  /\ m_pc = "rs_enter"
  /\ CanEnter("main")
  /\ g_lock' = "main"
  /\ m_pc' = "rs_tables"
  /\ last' = ""
  /\ UNCHANGED <<ioVars, tblVars, crowdVars, g_seg, g_gps, p_pc, p_obs, p_ts, p_loc, ui_items,
                 ui_left, m_loc, h_aux>>

\* lines 1052-1086: both tables cleared of what is not watched, g_next_index
RsTables ==
  /\ m_pc = "rs_tables"
  /\ g_tracks' = reset_tracks(g_tracks)
  /\ g_anchors' = reset_anchors(g_anchors)
  /\ g_next_index' = RecomputeNextIndex(g_tracks', g_anchors')
  /\ h_aux' = Around(g_tracks', g_anchors')
  /\ m_pc' = "rs_fp"
  /\ last' = ""
  /\ UNCHANGED <<ioVars, crowdVars, g_seg, g_gps, p_pc, p_obs, p_ts, p_loc, ui_items, ui_left,
                 m_loc, g_lock>>

\* lines 1089-1090: g_last_fp = EnvFingerprint{}; g_last_env_tick_s = 0
RsFp ==
  /\ m_pc = "rs_fp"
  /\ g_seg' = [g_seg EXCEPT !.last_fp = FpDefault, !.last_env_tick_s = 0]
  /\ m_pc' = "rs_segment_id"
  /\ last' = ""
  /\ UNCHANGED <<ioVars, tblVars, crowdVars, g_gps, p_pc, p_obs, p_ts, p_loc, ui_items, ui_left,
                 m_loc, g_lock, h_aux>>

\* line 1091: g_segment_id = 1
RsSegmentId ==
  /\ m_pc = "rs_segment_id"
  /\ g_seg' = [g_seg EXCEPT !.segment_id = 1]
  /\ m_pc' = "rs_move_segments"
  /\ last' = ""
  /\ UNCHANGED <<ioVars, tblVars, crowdVars, g_gps, p_pc, p_obs, p_ts, p_loc, ui_items, ui_left,
                 m_loc, g_lock, h_aux>>

\* line 1092: g_move_segments = 0
RsMoveSegments ==
  /\ m_pc = "rs_move_segments"
  /\ g_seg' = [g_seg EXCEPT !.move_segments = 0]
  /\ m_pc' = "rs_rest"
  /\ last' = ""
  /\ UNCHANGED <<ioVars, tblVars, crowdVars, g_gps, p_pc, p_obs, p_ts, p_loc, ui_items, ui_left,
                 m_loc, g_lock, h_aux>>

\* lines 1095-1102: the crowd window, the GNSS anchor, portEXIT_CRITICAL
RsRest ==
  /\ m_pc = "rs_rest"
  /\ g_current_window' = 0
  /\ g_window_unique_hits' = 0
  /\ g_seg' = [g_seg EXCEPT !.gps_anchor_valid = FALSE, !.last_gps_seg_s = 0]
  /\ g_lock' = "free"
  /\ m_pc' = "loop"
  /\ last' = "reset"
  /\ UNCHANGED <<ioVars, tblVars, g_gps, p_pc, p_obs, p_ts, p_loc, ui_items, ui_left, m_loc, h_aux>>

ProcStepRace ==
  \/ ProcTimeout
  \/ MsValid
  \/ MsDistLat
  \/ MsDist
  \/ MsSegmentId
  \/ MsMoveSegments
  \/ MsStoreLat
  \/ MsStoreLon
  \/ ExEnter
  \/ ExTables

MainStepRace ==
  \/ SgEnter
  \/ SgValid
  \/ SgLat
  \/ SgLon
  \/ SgExit
  \/ RsQueue
  \/ RsEnter
  \/ RsTables
  \/ RsFp
  \/ RsSegmentId
  \/ RsMoveSegments
  \/ RsRest

NextRace ==
  \/ TickLock
  \/ ProcStepRace
  \/ MainStepRace

SpecRace == InitRace /\ [][NextRace]_vars

(* ------------------- every call that takes the lock -------------------- *)
MaxObsCall == 1
MaxUiOpsCall == 2

\* a call in progress: the function, its argument, the statements still to
\* execute, how often it has entered and left the critical section, the
\* path its body took, the rows buildSnapshot collected
NewCall(fn, arg, todo) ==
  [fn |-> fn, arg |-> arg, todo |-> todo, acq |-> 0, rel |-> 0, path |-> "", rows |-> <<>>]
NoCall == NewCall("", <<>>, <<>>)

\* the statements of fn up to its critical section, f being the watch list
\* file: readWatchlist returns false at lines 1117, 1123, 1132, 1138 for a
\* file that is absent, empty, not JSON or without items; reset() starts
\* with xQueueReset
CallPlan(fn, f) ==
  IF fn = "readWatchlist" /\ f.state # "doc" THEN <<"return">>
  ELSE IF fn = "reset" THEN <<"queue", "enter", "body">>
  ELSE <<"enter", "body">>

\* updateEntity returning from inside the loop over the tracks without
\* portEXIT_CRITICAL
AfterBodyNoExit(fn, path) ==
  IF fn = "updateEntity" /\ path = "track" THEN <<"return">>
  ELSE IF fn = "buildSnapshot" THEN <<"exit", "sort", "return">>
  ELSE <<"exit", "return">>
\* the statements of fn after the body took path: portEXIT_CRITICAL and
\* return on each of them (updateEntity: lines 1018-1019, 1033-1034, 1038),
\* std::sort in between for buildSnapshot
AfterBody(fn, path) ==
  IF fn = "buildSnapshot" THEN <<"exit", "sort", "return">>
  ELSE <<"exit", "return">>

\* the path updateEntity(in) takes through its two loops
updateEntityPath(tracks, anchors, in) ==
  IF in.kind = "WifiAp"
    THEN IF \E i \in AnchorSlots : anchors[i].in_use /\ anchors[i].index = in.index
           THEN "anchor" ELSE "none"
  ELSE IF \E i \in TrackSlots : tracks[i].in_use /\ tracks[i].index = in.index
    THEN "track" ELSE "none"

\* the files begin() can find: none, one that is not JSON, one that fills
\* both tables
CallFiles == {FileAbsent, [state |-> "garbage", items |-> <<>>], FileFull}

InitCall ==
  /\ fs_watchlist \in CallFiles
  /\ g_tracks = [i \in TrackSlots |-> TrackDefault]
  /\ g_anchors = [i \in AnchorSlots |-> AnchorDefault]
  /\ g_next_index = 1
  /\ g_seg = SegDefault
  /\ g_current_window = 0
  /\ g_window_unique_hits = 0
  /\ g_gps = [valid |-> FALSE, lat |-> 0, lon |-> 0]
  /\ g_obs_q = <<>>
  /\ now = 0
  /\ cb = [c \in Callbacks |-> NoObs]
  /\ radio_on = Callbacks
  /\ p_pc = "off"
  /\ p_obs = NoObs
  /\ p_ts = 0
  /\ m_pc = "begin_read"
  /\ ui_items = <<>>
  /\ obs_left = MaxObsCall
  /\ ui_left = MaxUiOpsCall
  /\ last = ""
  /\ h_accepted = <<>>
  /\ h_applied = <<>>
  /\ saved = NoSaved
  /\ g_lock = "free"
  /\ p_loc = NoCall
  /\ m_loc = NoCall
  /\ h_aux = NoAux
  /\ sd = SdDefault

\* processing_task calls process_observation (past lines 489-494) or
\* expire_tables
CpCall ==
  /\ p_pc \in {"apply", "expire"}
  /\ \E fn \in {IF p_pc = "apply" THEN "process_observation" ELSE "expire_tables"} :
       p_loc' = NewCall(fn, <<>>, CallPlan(fn, fs_watchlist))
  /\ p_pc' = "call"
  /\ last' = ""
  /\ UNCHANGED <<ioVars, mainVars, tblVars, crowdVars, g_seg, g_gps, p_obs, p_ts, g_lock, h_aux>>

\* portENTER_CRITICAL(&g_lock), lines 448, 496: spins while the other core
\* is inside
CpEnter ==
  /\ p_pc = "call"
  /\ Head(p_loc.todo) = "enter"
  /\ g_lock # "main"
  /\ g_lock' = "proc"
  /\ p_loc' = [p_loc EXCEPT !.todo = Tail(@), !.acq = @ + 1]
  /\ last' = ""
  /\ UNCHANGED <<ioVars, mainVars, tblVars, crowdVars, g_seg, g_gps, p_pc, p_obs, p_ts, h_aux>>

\* lines 498-578 of process_observation (a nullptr from find_or_alloc
\* breaks out of the switch), lines 450-469 of expire_tables
CpBody ==
  /\ p_pc = "call"
  /\ Head(p_loc.todo) = "body"
  /\ IF p_loc.fn = "process_observation"
       THEN LET r == apply_observation(g_tracks, g_anchors, g_next_index, g_seg.segment_id,
                                       g_window_unique_hits, g_gps, p_obs[1])
            IN /\ g_tracks' = r.tracks
               /\ g_anchors' = r.anchors
               /\ g_next_index' = r.next_index
               /\ p_loc' = [p_loc EXCEPT !.path = r.how,
                                         !.todo = AfterBody("process_observation", r.how)]
               /\ last' = r.how
               /\ p_obs' = NoObs
     ELSE /\ g_tracks' = expire_tracks(g_tracks, p_ts)
          /\ g_anchors' = expire_anchors(g_anchors, p_ts)
          /\ g_next_index' = g_next_index
          /\ p_loc' = [p_loc EXCEPT !.todo = AfterBody("expire_tables", "")]
          /\ last' = IF g_tracks' # g_tracks \/ g_anchors' # g_anchors THEN "expired" ELSE ""
          /\ p_obs' = p_obs
  /\ UNCHANGED <<ioVars, mainVars, crowdVars, g_seg, g_gps, p_pc, p_ts, g_lock, h_aux>>

\* portEXIT_CRITICAL(&g_lock), lines 471, 580
CpExit ==
  /\ p_pc = "call"
  /\ Head(p_loc.todo) = "exit"
  /\ g_lock' = "free"
  /\ p_loc' = [p_loc EXCEPT !.todo = Tail(@), !.rel = @ + 1]
  /\ last' = ""
  /\ UNCHANGED <<ioVars, mainVars, tblVars, crowdVars, g_seg, g_gps, p_pc, p_obs, p_ts, h_aux>>

\* the call returns into the loop of processing_task
CpReturn ==
  /\ p_pc = "call"
  /\ Head(p_loc.todo) = "return"
  /\ p_pc' = IF p_loc.fn = "process_observation" THEN "segment" ELSE "recv"
  /\ p_loc' = NoCall
  /\ last' = ""
  /\ UNCHANGED <<ioVars, mainVars, tblVars, crowdVars, g_seg, g_gps, p_obs, p_ts, g_lock, h_aux>>

\* begin() calls readWatchlist()
CmCallRead ==
  /\ m_pc = "begin_read"
  /\ m_loc' = NewCall("readWatchlist", <<>>, CallPlan("readWatchlist", fs_watchlist))
  /\ m_pc' = "call"
  /\ last' = ""
  /\ UNCHANGED <<ioVars, tblVars, crowdVars, g_seg, g_gps, p_pc, p_obs, p_ts, p_loc, ui_items,
                 ui_left, g_lock, h_aux>>

\* loop() and the UI call setGpsFix, reset (ESC), buildSnapshot
\* (UIGrid::update) or, for the 'w' key on row k, updateEntity
CmCall ==
  /\ m_pc = "loop"
  /\ ui_left > 0
  /\ \/ /\ m_loc' = NewCall("setGpsFix", [valid |-> TRUE, lat |-> FixA.lat, lon |-> FixA.lon],
                              CallPlan("setGpsFix", fs_watchlist))
        /\ ui_items' = ui_items
     \/ /\ m_loc' = NewCall("reset", <<>>, CallPlan("reset", fs_watchlist))
        /\ ui_items' = ui_items
     \/ /\ m_loc' = NewCall("buildSnapshot", 0, CallPlan("buildSnapshot", fs_watchlist))
        /\ ui_items' = ui_items
     \/ \E k \in 1..Len(ui_items) :
          /\ m_loc' = NewCall("updateEntity", ToggleWatching(ui_items[k]),
                              CallPlan("updateEntity", fs_watchlist))
          /\ ui_items' = [ui_items EXCEPT ![k] = ToggleWatching(@)]
  /\ ui_left' = ui_left - 1
  /\ m_pc' = "call"
  /\ last' = ""
  /\ UNCHANGED <<ioVars, tblVars, crowdVars, g_seg, g_gps, p_pc, p_obs, p_ts, p_loc, g_lock, h_aux>>

\* reset() lines 1046-1048: xQueueReset(g_obs_q)
CmQueue ==
  /\ m_pc = "call"
  /\ Head(m_loc.todo) = "queue"
  /\ g_obs_q' = <<>>
  /\ m_loc' = [m_loc EXCEPT !.todo = Tail(@)]
  /\ last' = ""
  /\ UNCHANGED <<sd, fs_watchlist, now, cb, radio_on, obs_left, h_accepted, h_applied, saved,
                 tblVars, crowdVars, g_seg, g_gps, p_pc, p_obs, p_ts, p_loc, m_pc, ui_items,
                 ui_left, g_lock, h_aux>>

\* portENTER_CRITICAL(&g_lock), lines 898, 913, 1005, 1050, 1146
CmEnter ==
  /\ m_pc = "call"
  /\ Head(m_loc.todo) = "enter"
  /\ g_lock # "proc"
  /\ g_lock' = "main"
  /\ m_loc' = [m_loc EXCEPT !.todo = Tail(@), !.acq = @ + 1]
  /\ last' = ""
  /\ UNCHANGED <<ioVars, tblVars, crowdVars, g_seg, g_gps, p_pc, p_obs, p_ts, p_loc, m_pc,
                 ui_items, ui_left, h_aux>>

\* the statements between portENTER_CRITICAL and portEXIT_CRITICAL
CmBody ==
  /\ m_pc = "call"
  /\ Head(m_loc.todo) = "body"
  /\ \E path \in {IF m_loc.fn = "updateEntity"
                    THEN updateEntityPath(g_tracks, g_anchors, m_loc.arg) ELSE ""} :
       m_loc' = [m_loc EXCEPT !.path = path, !.todo = AfterBody(m_loc.fn, path),
                              !.rows = IF m_loc.fn = "buildSnapshot"
                                         THEN CollectRows(g_tracks, g_anchors, UI_MAX_OUT,
                                                          m_loc.arg, g_seg.move_segments)
                                       ELSE @]
  /\ CASE m_loc.fn = "setGpsFix" ->
            LET r == setGpsFix(g_gps, g_seg, m_loc.arg)
            IN /\ g_gps' = r.gps
               /\ g_seg' = r.sg
               /\ UNCHANGED <<tblVars, crowdVars>>
       [] m_loc.fn = "reset" ->
            /\ g_tracks' = reset_tracks(g_tracks)
            /\ g_anchors' = reset_anchors(g_anchors)
            /\ g_next_index' = RecomputeNextIndex(g_tracks', g_anchors')
            /\ g_seg' = reset_seg(g_seg)
            /\ g_current_window' = 0
            /\ g_window_unique_hits' = 0
            /\ g_gps' = g_gps
       [] m_loc.fn = "updateEntity" ->
            LET u == updateEntity(g_tracks, g_anchors, m_loc.arg)
            IN /\ g_tracks' = u[1]
               /\ g_anchors' = u[2]
               /\ UNCHANGED <<g_next_index, crowdVars, g_seg, g_gps>>
       [] m_loc.fn = "readWatchlist" ->
            LET r == readWatchlist(fs_watchlist, g_tracks, g_anchors, g_next_index, now)
            IN /\ g_tracks' = r.tracks
               /\ g_anchors' = r.anchors
               /\ g_next_index' = r.next_index
               /\ UNCHANGED <<crowdVars, g_seg, g_gps>>
       [] OTHER -> UNCHANGED <<tblVars, crowdVars, g_seg, g_gps>>
  /\ last' = m_loc.fn
  /\ UNCHANGED <<ioVars, p_pc, p_obs, p_ts, p_loc, m_pc, ui_items, ui_left, g_lock, h_aux>>

\* portEXIT_CRITICAL(&g_lock), lines 906, 984, 1018, 1033, 1038, 1102, 1284
CmExit ==
  /\ m_pc = "call"
  /\ Head(m_loc.todo) = "exit"
  /\ g_lock' = "free"
  /\ m_loc' = [m_loc EXCEPT !.todo = Tail(@), !.rel = @ + 1]
  /\ last' = ""
  /\ UNCHANGED <<ioVars, tblVars, crowdVars, g_seg, g_gps, p_pc, p_obs, p_ts, p_loc, m_pc,
                 ui_items, ui_left, h_aux>>

\* buildSnapshot lines 986-994: std::sort of the rows collected
CmSort ==
  /\ m_pc = "call"
  /\ Head(m_loc.todo) = "sort"
  /\ ui_items' = SortRows(m_loc.rows)
  /\ m_loc' = [m_loc EXCEPT !.todo = Tail(@)]
  /\ last' = "snapshot"
  /\ UNCHANGED <<ioVars, tblVars, crowdVars, g_seg, g_gps, p_pc, p_obs, p_ts, p_loc, m_pc,
                 ui_left, g_lock, h_aux>>

\* the call returns: into begin(), which goes on to start_tasks(), into
\* handleKeyboard, which goes on to writeWatchlist(), or into loop()
CmReturn ==
  /\ m_pc = "call"
  /\ Head(m_loc.todo) = "return"
  /\ m_pc' = IF m_loc.fn = "readWatchlist" THEN "begin_start"
             ELSE IF m_loc.fn = "updateEntity" THEN "ui_write" ELSE "loop"
  /\ m_loc' = NoCall
  /\ last' = ""
  /\ UNCHANGED <<ioVars, tblVars, crowdVars, g_seg, g_gps, p_pc, p_obs, p_ts, p_loc, ui_items,
                 ui_left, g_lock, h_aux>>

\* handleKeyboard, 'w': writeWatchlist() after updateEntity
CmWrite ==
  /\ m_pc = "ui_write"
  /\ g_lock = "free"
  /\ fs_watchlist' = WrittenFile(g_tracks, g_anchors)
  /\ m_pc' = "loop"
  /\ last' = "written"
  /\ UNCHANGED <<sd, g_obs_q, now, cb, radio_on, obs_left, h_accepted, h_applied, saved,
                 tblVars, crowdVars, g_seg, g_gps, p_pc, p_obs, p_ts, p_loc, ui_items, ui_left,
                 m_loc, g_lock, h_aux>>

ProcStepCall ==
  \/ ProcReceive
  \/ ProcTimeout
  \/ ProcCrowd
  \/ ProcSegment
  \/ CpCall
  \/ CpEnter
  \/ CpBody
  \/ CpExit
  \/ CpReturn

MainStepCall ==
  \/ CmCallRead
  \/ BeginStart
  \/ CmCall
  \/ CmQueue
  \/ CmEnter
  \/ CmBody
  \/ CmExit
  \/ CmSort
  \/ CmReturn
  \/ CmWrite

\* wifi_promisc_cb sees a frame of MacA, as a client or as an access point
CbStampCall ==
  StampFrom("wifi", {MkObs(k, -60, MacA, now, NoInfo) : k \in {"WifiProbeReq", "WifiApBeacon"}})

NextCall ==
  \/ Tick
  \/ CbStampCall
  \/ CbSend("wifi")
  \/ ProcStepCall
  \/ MainStepCall

SpecCall == InitCall /\ [][NextCall]_vars

(* ------------------ wifi_promisc_cb and the SSID element --------------- *)
MaxIeLen == 4
\* uint8_t out_ssid[32]
SSID_MAX == 32
\* the 802.11 management header, and header plus the 12 bytes of fixed
\* parameters of a beacon or probe response
MGMT_HDR_LEN == 24
BEACON_IE_START == 36

\* payload[k], the payload a sequence of bytes; a byte beyond the buffer is
\* whatever lies there, 0 here, the read being recorded by the caller
ByteAt(payload, k) == IF k < Len(payload) THEN payload[k + 1] ELSE 0

\* one pass of the loop at i without the test of line 79
ie_stepNoCheck(payload, len, i) ==
  LET id == ByteAt(payload, i)
      l == ByteAt(payload, i + 1)
      j == i + 2
      ncopy == IF l < SSID_MAX THEN l ELSE SSID_MAX
  IN IF id = 0
       THEN [how |-> "return", i |-> j, out_len |-> ncopy,
             out_ssid |-> [k \in 1..ncopy |-> ByteAt(payload, j + k - 1)],
             reads |-> {i, i + 1} \cup (j..(j + ncopy - 1))]
     ELSE [how |-> "next", i |-> j + l, out_len |-> 0, out_ssid |-> <<>>, reads |-> {i, i + 1}]
\* one pass of the loop of extract_ssid_ie at i, lines 75-88: the bytes
\* it reads, whether it breaks, returns or goes on, and the next i
ie_step(payload, len, i) ==
  LET id == ByteAt(payload, i)
      l == ByteAt(payload, i + 1)
      j == i + 2
      ncopy == IF l < SSID_MAX THEN l ELSE SSID_MAX
  IN IF j + l > len
       THEN [how |-> "break", i |-> j, out_len |-> 0, out_ssid |-> <<>>, reads |-> {i, i + 1}]
     ELSE IF id = 0
       THEN [how |-> "return", i |-> j, out_len |-> ncopy,
             out_ssid |-> [k \in 1..ncopy |-> ByteAt(payload, j + k - 1)],
             reads |-> {i, i + 1} \cup (j..(j + ncopy - 1))]
     ELSE [how |-> "next", i |-> j + l, out_len |-> 0, out_ssid |-> <<>>, reads |-> {i, i + 1}]

\* while (i + 2 <= len), at most n more passes: returned is FALSE when the
\* loop is still running after them
RECURSIVE ie_loop(_, _, _, _, _)
ie_loop(payload, len, i, reads, n) ==
  IF ~(i + 2 <= len)
    THEN [out_len |-> 0, out_ssid |-> <<>>, reads |-> reads, returned |-> TRUE]
  ELSE IF n = 0
    THEN [out_len |-> 0, out_ssid |-> <<>>, reads |-> reads, returned |-> FALSE]
  ELSE LET st == ie_step(payload, len, i)
       IN IF st.how = "next"
            THEN ie_loop(payload, len, st.i, reads \cup st.reads, n - 1)
          ELSE [out_len |-> st.out_len, out_ssid |-> st.out_ssid,
                reads |-> reads \cup st.reads, returned |-> TRUE]

\* extract_ssid_ie(payload, len, ie_start, out_ssid, out_len), the loop
\* given one pass for every byte of the frame
extract_ssid_ie(payload, len, ie_start) ==
  IF len <= ie_start
    THEN [out_len |-> 0, out_ssid |-> <<>>, reads |-> {}, returned |-> TRUE]
  ELSE ie_loop(payload, len, ie_start, {}, len)

fc_type(fc) == (fc \div 4) % 4
fc_subtype(fc) == (fc \div 16) % 16

\* wifi_promisc_cb on frame f at ts_s: whether an observation is sent, the
\* observation, its ssid, and what extract_ssid_ie did if it was called
NoSsid == [out_len |-> 0, out_ssid |-> <<>>, reads |-> {}, returned |-> TRUE]
wifi_promisc_cb(f, ts_s) ==
  LET fc == ByteAt(f.payload, 0) + 256 * ByteAt(f.payload, 1)
      st == fc_subtype(fc)
      none == [sent |-> FALSE, called |-> FALSE, ie_start |-> 0, kind |-> "", ssid |-> NoSsid]
  IN IF ~f.mgmt \/ f.len < MGMT_HDR_LEN \/ fc_type(fc) # 0 THEN none
     ELSE IF st = 8 \/ st = 5
       THEN IF f.len <= BEACON_IE_START THEN none
            ELSE [sent |-> TRUE, called |-> TRUE, ie_start |-> BEACON_IE_START,
                  kind |-> IF st = 8 THEN "WifiApBeacon" ELSE "WifiApProbeResp",
                  ssid |-> extract_ssid_ie(f.payload, f.len, BEACON_IE_START)]
     ELSE IF st = 4
       THEN IF f.len > MGMT_HDR_LEN
              THEN [sent |-> TRUE, called |-> TRUE, ie_start |-> MGMT_HDR_LEN,
                    kind |-> "WifiProbeReq",
                    ssid |-> extract_ssid_ie(f.payload, f.len, MGMT_HDR_LEN)]
            ELSE [sent |-> TRUE, called |-> FALSE, ie_start |-> MGMT_HDR_LEN,
                  kind |-> "WifiProbeReq", ssid |-> NoSsid]
     ELSE none

\* the first byte of the frame control field: probe request, probe
\* response, beacon, association request, a control frame
FcBytes == {64, 80, 128, 0, 132}
IeBytes == {0, 1, 2, 255}
\* the header of a frame, n bytes with frame control fc0
FrameHeader(fc0, n) == [k \in 1..n |-> IF k = 1 THEN fc0 ELSE 0]
\* element lists of up to MaxIeLen bytes
ShortIes == UNION {[1..n -> IeBytes] : n \in 0..MaxIeLen}
\* element lists with an SSID element of 31, 32, 33 or 255 bytes, alone,
\* behind another element, before another SSID element
IeBody(n) == [k \in 1..n |-> 65 + (k % 26)]
LongIes ==
  {pre \o <<0, l>> \o IeBody(l) \o post :
     pre \in {<<>>, <<1, 1, 9>>}, l \in {31, 32, 33, 255}, post \in {<<>>, <<0, 1, 7>>}}
\* where sig_len cuts a frame with header h and elements ies: anywhere
\* in a short list, near both ends and around the 32nd byte of a long one
FrameCuts(h, ies) ==
  IF Len(ies) <= MaxIeLen + 1 THEN MGMT_HDR_LEN..(h + Len(ies))
  ELSE {h + k : k \in {1, 2, 5, 33} \cup ((Len(ies) - 4)..Len(ies))}
\* the frames the driver hands over, as frame control byte, header
\* length and packet type: management frames of the three subtypes the
\* callback takes; an association request, a control frame and a data
\* packet, which it drops
FrameKinds ==
  {<<64, MGMT_HDR_LEN, TRUE>>, <<80, BEACON_IE_START, TRUE>>, <<128, BEACON_IE_START, TRUE>>,
   <<0, MGMT_HDR_LEN, TRUE>>, <<132, MGMT_HDR_LEN, TRUE>>, <<64, MGMT_HDR_LEN, FALSE>>}
\* the element lists tried with frames of kind k
FrameIes(k) ==
  IF k[3] /\ k[1] \in {64, 80, 128} THEN ShortIes \cup LongIes ELSE {<<0, 1, 7>>}
\* the payload and the length sig_len
Frame(k, ies, len) == [mgmt |-> k[3], payload |-> FrameHeader(k[1], k[2]) \o ies, len |-> len]

InitIe ==
  /\ g_tracks = [i \in TrackSlots |-> TrackDefault]
  /\ g_anchors = [i \in AnchorSlots |-> AnchorDefault]
  /\ g_next_index = 1
  /\ g_seg = SegDefault
  /\ g_current_window = 0
  /\ g_window_unique_hits = 0
  /\ g_gps = [valid |-> FALSE, lat |-> 0, lon |-> 0]
  /\ g_obs_q = <<>>
  /\ now = 0
  /\ cb = [c \in Callbacks |-> NoObs]
  /\ radio_on = {"wifi"}
  /\ fs_watchlist = FileAbsent
  /\ p_pc = "recv"
  /\ p_obs = NoObs
  /\ p_ts = 0
  /\ m_pc = "loop"
  /\ ui_items = <<>>
  /\ obs_left = 1
  /\ ui_left = 0
  /\ last = ""
  /\ h_accepted = <<>>
  /\ h_applied = <<>>
  /\ saved = NoSaved
  /\ g_lock = "free"
  /\ p_loc = NoLoc
  /\ m_loc = NoLoc
  /\ \E k \in FrameKinds :
     \E ies \in FrameIes(k) :
     \E len \in {0, 23} \cup FrameCuts(k[2], ies) :
       h_aux = [frame |-> Frame(k, ies, len), out |-> <<>>]
  /\ sd = SdDefault

\* the driver calls wifi_promisc_cb with the frame h_aux.frame, sent by
\* MacA
WifiFrame ==
  /\ "wifi" \in radio_on
  /\ cb["wifi"] = NoObs
  /\ obs_left > 0
  /\ \E r \in {wifi_promisc_cb(h_aux.frame, now)} :
       /\ h_aux' = [h_aux EXCEPT !.out = <<r>>]
       /\ cb' = IF r.sent THEN [cb EXCEPT !["wifi"] = <<MkObs(r.kind, -60, MacA, now, NoInfo)>>]
                ELSE cb
  /\ obs_left' = obs_left - 1
  /\ last' = ""
  /\ UNCHANGED <<sd, g_lock, p_loc, m_loc, g_tracks, g_anchors, g_next_index, g_seg,
                 g_current_window, g_window_unique_hits, g_gps, g_obs_q, fs_watchlist, now,
                 radio_on, p_pc, p_obs, p_ts, m_pc, ui_items, ui_left, h_accepted, h_applied,
                 saved>>

NextIe == WifiFrame \/ CbSend("wifi")

SpecIe == InitIe /\ [][NextIe]_vars

(* ================================ claims =============================== *)
\* slot i of table tb keeps its identity in table tb2
SameEntity(a, b) == b.in_use /\ b.addr = a.addr /\ b.index = a.index
SameTrack(a, b) == SameEntity(a, b) /\ b.kind = a.kind
Watched(e) == e.in_use /\ HasFlag(e.flags, "Watching")

\* C1: a slot that is in use and Watching is, after any step of the program
\* (an observation applied, with or without eviction, expire_tables, reset,
\* readWatchlist), still in use with the same (kind, addr) and index; it is
\* still Watching unless the step was updateEntity clearing a flag.
C1_WatchingSlotKept ==
  [][ /\ \A i \in TrackSlots :
           Watched(g_tracks[i]) =>
             /\ SameTrack(g_tracks[i], g_tracks'[i])
             /\ (last' # "unwatch" => Watched(g_tracks'[i]))
      /\ \A i \in AnchorSlots :
           Watched(g_anchors[i]) =>
             /\ SameEntity(g_anchors[i], g_anchors'[i])
             /\ (last' # "unwatch" => Watched(g_anchors'[i])) ]_vars

\* an eviction has just replaced a slot of the full track table while another
\* slot of it is Watching
C1_Witness ==
  /\ last = "evict"
  /\ \E i \in TrackSlots : Watched(g_tracks[i])

InUseIndices(tracks, anchors) ==
  {tracks[i].index : i \in {j \in TrackSlots : tracks[j].in_use}}
    \cup {anchors[i].index : i \in {j \in AnchorSlots : anchors[j].in_use}}

\* C2: in every reachable state no in-use slot has index 0 and no two in-use
\* slots of the track and anchor tables taken together have the same index.
C2_IndicesUniqueNonZero ==
  /\ \A i \in TrackSlots : g_tracks[i].in_use => g_tracks[i].index # 0
  /\ \A i \in AnchorSlots : g_anchors[i].in_use => g_anchors[i].index # 0
  /\ \A i, j \in TrackSlots :
       (i # j /\ g_tracks[i].in_use /\ g_tracks[j].in_use) => g_tracks[i].index # g_tracks[j].index
  /\ \A i, j \in AnchorSlots :
       (i # j /\ g_anchors[i].in_use /\ g_anchors[j].in_use) => g_anchors[i].index # g_anchors[j].index
  /\ \A i \in TrackSlots : \A j \in AnchorSlots :
       (g_tracks[i].in_use /\ g_anchors[j].in_use) => g_tracks[i].index # g_anchors[j].index

\* C6: the step that completes reset() (likewise readWatchlist()) leaves every
\* slot that is not Watching free and every Watching slot unchanged, and
\* next_index equal to 1 + the largest in-use index (1 when none is in use),
\* hence greater than the index of every in-use slot.
C6_AfterReset ==
  [][ last' \in {"reset", "loaded"} =>
        /\ \A i \in TrackSlots :
             /\ g_tracks'[i].in_use => HasFlag(g_tracks'[i].flags, "Watching")
             /\ Watched(g_tracks[i]) => g_tracks'[i] = g_tracks[i]
        /\ \A i \in AnchorSlots :
             /\ g_anchors'[i].in_use => HasFlag(g_anchors'[i].flags, "Watching")
             /\ Watched(g_anchors[i]) => g_anchors'[i] = g_anchors[i]
        /\ g_next_index' = 1 + MaxInUseIndex(g_tracks', g_anchors')
        /\ \A x \in InUseIndices(g_tracks', g_anchors') : x < g_next_index' ]_vars

\* C3: in every reachable state every in-use track has
\* first_seen_s <= last_seen_s, whatever the order in which the callbacks
\* time-stamp and enqueue, and for the tracks readWatchlist creates in begin().
C3_FirstSeenBeforeLastSeen ==
  \A i \in TrackSlots : g_tracks[i].in_use => g_tracks[i].first_seen_s <= g_tracks[i].last_seen_s

RowWatched(r) == HasFlag(r.flags, "Watching")
\* (watched, score, rssi, -index) of a is lexicographically >= that of b
RowTupleGE(a, b) ==
  \/ RowWatched(a) /\ ~RowWatched(b)
  \/ /\ RowWatched(a) = RowWatched(b)
     /\ \/ a.score > b.score
        \/ /\ a.score = b.score
           /\ \/ a.rssi > b.rssi
              \/ a.rssi = b.rssi /\ a.index <= b.index

\* C4: the rows buildSnapshot has just returned are ordered: for i < j the
\* tuple (watched, score, rssi, -index) of row i is >= that of row j.
C4_SnapshotOrdered ==
  last = "snapshot" =>
    \A i, j \in 1..Len(ui_items) : i < j => RowTupleGE(ui_items[i], ui_items[j])

\* a snapshot of two rows with equal watch flags that the score decides, the
\* lower index coming second
C4_Witness ==
  /\ last = "snapshot"
  /\ Len(ui_items) >= 2
  /\ RowWatched(ui_items[1]) = RowWatched(ui_items[2])
  /\ ui_items[1].score > ui_items[2].score
  /\ ui_items[1].index > ui_items[2].index

\* the row of an in-use entity in a snapshot, 0 when it has none
RowOf(rows, kind, index) ==
  LET S == {k \in 1..Len(rows) : rows[k].index = index /\ (rows[k].kind = "WifiAp") = (kind = "WifiAp")}
  IN IF S = {} THEN 0 ELSE CHOOSE k \in S : TRUE

\* C5: in the snapshot buildSnapshot has just returned to the UI, every in-use
\* Watching entity (track or anchor) has a row, and that row is ahead of all
\* rows of entities that are not Watching.
C5_WatchedShown ==
  last = "snapshot" =>
    /\ \A i \in TrackSlots :
         Watched(g_tracks[i]) =>
           /\ RowOf(ui_items, g_tracks[i].kind, g_tracks[i].index) # 0
           /\ \A k \in 1..Len(ui_items) :
                ~RowWatched(ui_items[k]) => RowOf(ui_items, g_tracks[i].kind, g_tracks[i].index) < k
    /\ \A i \in AnchorSlots :
         Watched(g_anchors[i]) =>
           /\ RowOf(ui_items, "WifiAp", g_anchors[i].index) # 0
           /\ \A k \in 1..Len(ui_items) :
                ~RowWatched(ui_items[k]) => RowOf(ui_items, "WifiAp", g_anchors[i].index) < k

\* half a unit of the eighth decimal, in nano-degrees
COORD_TOL == 5

\* C7: after writeWatchlist(), reset() and readWatchlist(), every entity that
\* was Watching before the write is in use, Watching, with the same
\* (kind, addr), and if it had HasGeo it still has, with the same displayed
\* lat/lon up to the 8-decimal rendering.
C7_RoundTripKeepsWatched ==
  (m_pc = "wl_done" /\ saved.path = "reset") =>
    /\ \A i \in TrackSlots :
         Watched(saved.tracks[i]) =>
           \E j \in TrackSlots :
             /\ Watched(g_tracks[j])
             /\ g_tracks[j].kind = saved.tracks[i].kind
             /\ g_tracks[j].addr = saved.tracks[i].addr
             /\ HasFlag(saved.tracks[i].flags, "HasGeo") =>
                  /\ HasFlag(g_tracks[j].flags, "HasGeo")
                  /\ Abs(TrackView(g_tracks[j], 0, 0).lat - TrackView(saved.tracks[i], 0, 0).lat) <= COORD_TOL
                  /\ Abs(TrackView(g_tracks[j], 0, 0).lon - TrackView(saved.tracks[i], 0, 0).lon) <= COORD_TOL
    /\ \A i \in AnchorSlots :
         Watched(saved.anchors[i]) =>
           \E j \in AnchorSlots :
             /\ Watched(g_anchors[j])
             /\ g_anchors[j].addr = saved.anchors[i].addr
             /\ HasFlag(saved.anchors[i].flags, "HasGeo") =>
                  /\ HasFlag(g_anchors[j].flags, "HasGeo")
                  /\ Abs(AnchorView(g_anchors[j]).lat - AnchorView(saved.anchors[i]).lat) <= COORD_TOL
                  /\ Abs(AnchorView(g_anchors[j]).lon - AnchorView(saved.anchors[i]).lon) <= COORD_TOL

\* the round trip was made with a Watching anchor whose displayed position,
\* a centroid south of the equator, came back rounded to the eighth decimal
C7_Witness ==
  /\ m_pc = "wl_done"
  /\ saved.path = "reset"
  /\ \E i \in AnchorSlots :
       /\ Watched(saved.anchors[i])
       /\ HasFlag(saved.anchors[i].flags, "HasGeo")
       /\ saved.anchors[i].w_sum >= W_SUM_MIN
       /\ AnchorView(saved.anchors[i]).lat < 0
       /\ AnchorView(g_anchors[i]).lat # AnchorView(saved.anchors[i]).lat
  /\ \E i \in TrackSlots : Watched(saved.tracks[i]) /\ HasFlag(saved.tracks[i].flags, "HasGeo")

\* C8: a Watching track written by writeWatchlist() and loaded by
\* readWatchlist() into empty tables (a reboot) has the tracker_type,
\* tracker_google_mfr and tracker_samsung_subtype it had when written.
C8_TrackerFieldsRoundTrip ==
  (m_pc = "wl_done" /\ saved.path = "reboot") =>
    \A i \in TrackSlots :
      Watched(saved.tracks[i]) =>
        \E j \in TrackSlots :
          /\ g_tracks[j].in_use
          /\ g_tracks[j].kind = saved.tracks[i].kind
          /\ g_tracks[j].addr = saved.tracks[i].addr
          /\ g_tracks[j].tracker_type = saved.tracks[i].tracker_type
          /\ g_tracks[j].tracker_google_mfr = saved.tracks[i].tracker_google_mfr
          /\ g_tracks[j].tracker_samsung_subtype = saved.tracks[i].tracker_samsung_subtype

\* C9: a callback that sends to the full queue returns from the send with
\* the queue unchanged and its observation discarded; it is never kept
\* waiting; and what the consumer receives is the oldest queued observation,
\* as it was queued, the others staying queued in order.
C9_FullQueueDrops ==
  /\ [](\A c \in Callbacks : cb[c] # NoObs => ENABLED CbSendRec(c))
  /\ [][ /\ \A c \in Callbacks :
              (cb[c] # NoObs /\ cb'[c] = NoObs /\ Len(g_obs_q) = OBS_Q_LEN) =>
                 /\ g_obs_q' = g_obs_q
                 /\ h_accepted' = h_accepted
         /\ p_obs' # p_obs /\ p_obs' # NoObs =>
              /\ p_obs' = <<Head(g_obs_q)>>
              /\ g_obs_q' = Tail(g_obs_q) ]_vars

\* one of the observations produced was dropped at the full queue, and the
\* consumer has since applied exactly the OBS_Q_LEN observations accepted
C9_Witness ==
  /\ obs_left = 0
  /\ \A c \in Callbacks : cb[c] = NoObs
  /\ Len(h_accepted) = OBS_Q_LEN
  /\ MaxObsQ > OBS_Q_LEN
  /\ h_applied = h_accepted

\* the observations accepted so far are those applied, then the one the
\* processing task holds, then those queued
AcceptedInOrder == h_accepted = h_applied \o p_obs \o g_obs_q

\* C10: with both callbacks enqueuing and no reset(), every observation the
\* queue accepted is applied by the processing task exactly once, and
\* observations are applied in the order in which the queue accepted them.
C10_AppliedOnceInOrder ==
  /\ []AcceptedInOrder
  /\ \A n \in 1..MaxObsQ : (Len(h_accepted) >= n) ~> (Len(h_applied) >= n)

\* all MaxObsQ observations were accepted and applied, one of the BLE callback
\* ahead of a different one of the Wi-Fi callback
C10_Witness ==
  /\ obs_left = 0
  /\ Len(h_applied) >= 2
  /\ h_applied = h_accepted
  /\ h_applied[1].kind = "BleAdv"
  /\ h_applied[2].kind # "BleAdv"

\* every slot of table tb is in use and Watching
AllWatching(tb, slots) == \A i \in slots : tb[i].in_use /\ HasFlag(tb[i].flags, "Watching")
\* the table holds the entity observation o is about
ObsKnown(tracks, anchors, o) ==
  IF o.kind \in {"WifiProbeReq", "BleAdv"}
    THEN \E i \in TrackSlots :
           /\ tracks[i].in_use /\ tracks[i].addr = o.addr
           /\ tracks[i].kind = (IF o.kind = "BleAdv" THEN "BleAdv" ELSE "WifiClient")
    ELSE \E i \in AnchorSlots : anchors[i].in_use /\ anchors[i].addr = o.addr
ObsTableFull(tracks, anchors, o) ==
  IF o.kind \in {"WifiProbeReq", "BleAdv"}
    THEN AllWatching(tracks, TrackSlots) ELSE AllWatching(anchors, AnchorSlots)

\* C11: when process_observation handles an observation of an address that is
\* not in its table, the entity gets no slot if and only if every slot of that
\* table is in use and Watching; then both tables and next_index are unchanged,
\* the crowd window counter has counted the observation, and the loop goes on
\* to the segmentation step.
C11_SaturationDropsObservation ==
  [][ (p_pc = "apply" /\ p_pc' # "apply" /\ ~ObsKnown(g_tracks, g_anchors, p_obs[1])) =>
        /\ ~ObsKnown(g_tracks', g_anchors', p_obs[1]) <=> ObsTableFull(g_tracks, g_anchors, p_obs[1])
        /\ ~ObsKnown(g_tracks', g_anchors', p_obs[1]) =>
             /\ g_tracks' = g_tracks
             /\ g_anchors' = g_anchors
             /\ g_next_index' = g_next_index
             /\ g_current_window' = p_obs[1].ts_s \div WINDOW_SEC
             /\ g_window_unique_hits' >= 1
             /\ p_pc' = "segment" ]_vars

\* a beacon of an unknown access point was dropped at the anchor table, all of
\* whose slots are Watching, and the loop stands before the segmentation step
C11_Witness ==
  /\ last = "fail"
  /\ p_pc = "segment"
  /\ AllWatching(g_anchors, AnchorSlots)
  /\ \A i \in AnchorSlots : g_anchors[i].addr # MacA
  /\ g_window_unique_hits >= 1

\* the idle limit of the claim for a slot: 900 s for a WifiClient track,
\* 1200 s for a BleAdv track
IdleLimitOfTrack(t) == IF t.kind = "WifiClient" THEN 900 ELSE 1200
\* slot e, in use and not Watching, has been idle for more than limit at ts_s
IdleOver(e, ts_s, limit) == e.in_use /\ ~HasFlag(e.flags, "Watching") /\ ts_s - e.last_seen_s > limit

\* C12: the step expire_tables(ts_s) marks free exactly the in-use,
\* non-Watching slots idle for strictly more than the limit of their kind
\* (900 s WifiClient, 1200 s BleAdv, 600 s anchors) and changes nothing else:
\* every other slot, the other fields of a freed slot, next_index and the
\* segmentation state stay as they were.
C12_ExpireFreesExactlyIdle ==
  [][ (p_pc = "expire" /\ p_pc' # "expire") =>
        /\ \A i \in TrackSlots :
             g_tracks'[i] = IF IdleOver(g_tracks[i], p_ts, IdleLimitOfTrack(g_tracks[i]))
                              THEN [g_tracks[i] EXCEPT !.in_use = FALSE] ELSE g_tracks[i]
        /\ \A i \in AnchorSlots :
             g_anchors'[i] = IF IdleOver(g_anchors[i], p_ts, 600)
                               THEN [g_anchors[i] EXCEPT !.in_use = FALSE] ELSE g_anchors[i]
        /\ g_next_index' = g_next_index
        /\ g_seg' = g_seg ]_vars

\* expire_tables has just freed a slot while it kept a BLE track that was idle
\* for more than the Wi-Fi limit but not more than its own, and a Watching one
C12_Witness ==
  /\ last = "expired"
  /\ \E i \in TrackSlots :
       /\ g_tracks[i].in_use /\ g_tracks[i].kind = "BleAdv" /\ ~HasFlag(g_tracks[i].flags, "Watching")
       /\ p_ts - g_tracks[i].last_seen_s > TRACK_IDLE_SEC_WIFI
  /\ \E i \in TrackSlots : Watched(g_tracks[i])

\* slot e is in use, not Watching, and its idle limit ends before the last
\* instant the clock is looked at
DueBeforeEnd(e, limit) ==
  e.in_use /\ ~HasFlag(e.flags, "Watching") /\ e.last_seen_s + limit < LastInstant

\* C13: with the processing task scheduled fairly and the clock advancing,
\* once the observations have ceased every non-Watching entity whose idle
\* limit ends within the time looked at is eventually freed, for good; the
\* loop reaches expire_tables also when its receive finds the queue empty.
C13_IdleEventuallyFreed ==
  <>[](/\ \A i \in TrackSlots : ~DueBeforeEnd(g_tracks[i], IdleLimitOfTrack(g_tracks[i]))
       /\ \A i \in AnchorSlots : ~DueBeforeEnd(g_anchors[i], 600))

\* expire_tables has freed a track on an iteration whose receive timed out:
\* the one observation produced so far was applied long before
C13_Witness ==
  /\ last = "expired"
  /\ obs_left = MaxObsProc - 1
  /\ g_obs_q = <<>>
  /\ \A c \in Callbacks : cb[c] = NoObs
  /\ g_window_unique_hits = 1
  /\ g_current_window = 0
  /\ \E i \in TrackSlots : ~g_tracks[i].in_use /\ g_tracks[i].index # 0

\* 50 m of latitude in nano-degrees, rounded up (one degree is 111194.93 m)
SEG_DIST_NANO == 449662

\* the GNSS anchor of segmentation state sg
GpsAnchorOf(sg) == [lat |-> sg.gps_anchor_lat, lon |-> sg.gps_anchor_lon]

\* C14: in GNSS mode with a stored anchor, one segmentation evaluation adds
\* exactly 1 to segment_id and to move_segments and makes the current fix the
\* anchor if at least 10 s have passed since the anchor was stored or last
\* replaced and the fix is at least 50 m from the anchor, and otherwise
\* leaves segment_id, move_segments and the anchor as they were; the time
\* kept with the anchor is the time it was stored or last replaced.
C14_GnssAdvance ==
  [][/\ LET stored == g_seg'.gps_anchor_valid
                       /\ (~g_seg.gps_anchor_valid \/ GpsAnchorOf(g_seg') # GpsAnchorOf(g_seg))
        IN /\ stored => g_seg'.last_gps_seg_s = now
           /\ g_seg'.last_gps_seg_s # g_seg.last_gps_seg_s => stored
     /\ (p_pc = "segment" /\ p_pc' = "expire" /\ g_gps.valid /\ g_seg.gps_anchor_valid)
        => IF /\ now - g_seg.last_gps_seg_s >= 10
              /\ g_gps.lon = g_seg.gps_anchor_lon
              /\ Abs(g_gps.lat - g_seg.gps_anchor_lat) >= SEG_DIST_NANO
             THEN /\ g_seg'.segment_id = g_seg.segment_id + 1
                  /\ g_seg'.move_segments = g_seg.move_segments + 1
                  /\ GpsAnchorOf(g_seg') = [lat |-> g_gps.lat, lon |-> g_gps.lon]
                  /\ g_seg'.gps_anchor_valid
           ELSE g_seg' = g_seg]_vars

\* an evaluation 10 s after the anchor FixA was stored has moved the anchor
\* to a fix 50 m away and opened segment 2
C14_Witness ==
  /\ last = "advance"
  /\ p_pc = "expire"
  /\ now = 10
  /\ g_gps.valid
  /\ g_seg.gps_anchor_valid
  /\ GpsAnchorOf(g_seg) = SegFar
  /\ g_seg.last_gps_seg_s = 10
  /\ g_seg.segment_id = 2
  /\ g_seg.move_segments = 1

\* the addresses of fingerprint fp
FpAddrs(fp) == {fp[i][1] : i \in 1..Len(fp)}

\* C15: in fingerprint mode an evaluation made at least 30 s after the
\* previous one (the one that stored the fingerprint it is compared with)
\* stores the new fingerprint, leaves segment_id and move_segments unchanged
\* when the two fingerprints are identical, and adds exactly 1 to both when
\* their address sets are disjoint and one of them is not empty.  A stored
\* fingerprint that is not empty shows that an evaluation was made, at
\* last_env_tick_s.
C15_FingerprintAdvance ==
  [][(/\ p_pc = "segment" /\ p_pc' = "expire"
      /\ ~g_gps.valid
      /\ (g_seg.last_env_tick_s # 0 \/ g_seg.last_fp # FpDefault)
      /\ now - g_seg.last_env_tick_s >= 30)
     => LET fp == build_fingerprint(g_anchors, now)
            prev == g_seg.last_fp
        IN /\ g_seg'.last_fp = fp
           /\ fp = prev => /\ g_seg'.segment_id = g_seg.segment_id
                           /\ g_seg'.move_segments = g_seg.move_segments
           /\ (FpAddrs(fp) \cap FpAddrs(prev) = {} /\ (fp # FpDefault \/ prev # FpDefault))
                => /\ g_seg'.segment_id = g_seg.segment_id + 1
                   /\ g_seg'.move_segments = g_seg.move_segments + 1]_vars

\* slot e with its Watching bit made that of the view in
WithWatchBitOf(e, in) == [e EXCEPT !.flags = (@ \ {"Watching"}) \cup (in.flags \cap {"Watching"})]

\* C19: updateEntity(view) changes at most the Watching flag of the in-use
\* slot with view's index in the table view.kind selects (the anchor table
\* for WifiAp, the track table otherwise), making it the Watching bit of
\* view.flags; every other field and slot, next_index and the segmentation
\* state stay, and nothing changes when no in-use slot has that index.
C19_UpdateEntityOneBit ==
  [][(ui_left' = ui_left - 1 /\ last' \in {"watch", "unwatch"})
     => \E k \in 1..Len(ui_items) :
          /\ ui_items'[k] # ui_items[k]
          /\ LET in == ui_items'[k]
             IN /\ \A i \in TrackSlots :
                     g_tracks'[i] = IF in.kind # "WifiAp" /\ g_tracks[i].in_use
                                        /\ g_tracks[i].index = in.index
                                      THEN WithWatchBitOf(g_tracks[i], in)
                                    ELSE g_tracks[i]
                /\ \A i \in AnchorSlots :
                     g_anchors'[i] = IF in.kind = "WifiAp" /\ g_anchors[i].in_use
                                         /\ g_anchors[i].index = in.index
                                       THEN WithWatchBitOf(g_anchors[i], in)
                                     ELSE g_anchors[i]
          /\ g_next_index' = g_next_index
          /\ g_seg' = g_seg]_vars

\* a row of a watched entity has been un-watched and its slot has lost the
\* flag, while a row whose index no slot has is on the screen
C19_Witness ==
  /\ last = "unwatch"
  /\ \E k \in 1..Len(ui_items) :
       /\ ~HasFlag(ui_items[k].flags, "Watching")
       /\ \/ \E i \in TrackSlots : /\ ui_items[k].kind # "WifiAp"
                                   /\ g_tracks[i].in_use
                                   /\ g_tracks[i].index = ui_items[k].index
                                   /\ ~HasFlag(g_tracks[i].flags, "Watching")
          \/ \E i \in AnchorSlots : /\ ui_items[k].kind = "WifiAp"
                                    /\ g_anchors[i].in_use
                                    /\ g_anchors[i].index = ui_items[k].index
                                    /\ ~HasFlag(g_anchors[i].flags, "Watching")

\* the document f without the items that are not well formed
WellFormedOnly(f) == [f EXCEPT !.items = SelectSeq(@, LAMBDA it : it \in RdGoodItems)]

\* C20: with the watch list absent, empty, not JSON or without an items
\* array, readWatchlist returns false and leaves both tables and next_index
\* as they were; in a valid document an item that is not an object, lacks
\* kind or mac, or has an unknown kind or an unparsable mac changes no slot,
\* and the other items are applied as they are without it.
C20_ReadWatchlistSkips ==
  [][(m_pc = "begin_read" /\ m_pc' = "begin_start")
     => IF fs_watchlist.state # "doc"
          THEN /\ m_loc'.ret = FALSE
               /\ g_tracks' = g_tracks
               /\ g_anchors' = g_anchors
               /\ g_next_index' = g_next_index
        ELSE LET r == readWatchlist(WellFormedOnly(fs_watchlist), g_tracks, g_anchors,
                                    g_next_index, now)
             IN /\ g_tracks' = r.tracks
                /\ g_anchors' = r.anchors
                /\ g_next_index' = r.next_index
                /\ m_loc'.ret = r.ok
                /\ (\A k \in 1..Len(fs_watchlist.items) : fs_watchlist.items[k] \in RdBadItems)
                     => /\ g_tracks' = g_tracks
                        /\ g_anchors' = g_anchors
                        /\ m_loc'.ret = FALSE]_vars

\* a document with a malformed item between two well-formed ones has been
\* read: both entities are in the tables, Watching
C20_Witness ==
  /\ m_pc = "begin_start"
  /\ m_loc = [ret |-> TRUE]
  /\ Len(fs_watchlist.items) = 3
  /\ fs_watchlist.items[1] \in RdGoodItems
  /\ fs_watchlist.items[2] \in RdBadItems
  /\ fs_watchlist.items[3] \in RdGoodItems
  /\ \E i \in TrackSlots : g_tracks[i].in_use /\ g_tracks[i].addr = MacB /\ Watched(g_tracks[i])
  /\ \E i \in AnchorSlots : g_anchors[i].in_use /\ g_anchors[i].addr = MacA /\ Watched(g_anchors[i])

\* C16: setGpsFix is atomic for every reader: the (valid, lat, lon) that
\* process_observation or maybe_advance_segment has read and uses come from
\* one setGpsFix call, so a valid fix it has read both coordinates of is one
\* of the fixes passed to setGpsFix.
C16_FixFromOneCall ==
  (p_loc.valid /\ p_loc.n = 2) => [lat |-> p_loc.lat, lon |-> p_loc.lon] \in CallFixes

\* C17: every read and write of the tables, the segmentation state, the
\* crowd counters and the GNSS fix is made by a task that holds g_lock, in
\* processing_task as in the facade calls of the main task.
C17_AccessUnderLock ==
  /\ p_pc \in ProcAccessPcs => g_lock = "proc"
  /\ m_pc \in MainAccessPcs => g_lock = "main"

\* the rows of a sequence of rows
RowsOf(rows) == {rows[k] : k \in 1..Len(rows)}

\* C18: whatever the interleaving of processing_task with a buildSnapshot
\* caller, each snapshot row is the row of the tables as they were before or
\* as they are after the whole process_observation call in progress (the
\* tables as they are when no call is in progress): no row shows a slot with
\* some but not all of the updates of that observation.
C18_SnapshotSeesWholeCalls ==
  [][(m_pc = "bs_collect" /\ m_pc' = "bs_exit")
     => LET before == CollectRows(h_aux.pre[1], h_aux.pre[2], UI_MAX_OUT, m_loc.ratio,
                                  g_seg.move_segments)
            after == CollectRows(h_aux.post[1], h_aux.post[2], UI_MAX_OUT, m_loc.ratio,
                                 g_seg.move_segments)
        IN /\ RowsOf(m_loc'.rows) \subseteq RowsOf(before) \cup RowsOf(after)
           /\ (p_pc \notin {"apply", "po_gps_valid", "po_gps_lat", "po_gps_lon", "po_find",
                            "po_update", "po_geo", "po_tracker", "po_exit"})
                => m_loc'.rows = before]_vars

\* a snapshot has been collected while processing_task, holding the next
\* observation of the tag the snapshot has a row of, waits for the lock
C18_Witness ==
  /\ m_pc = "bs_exit"
  /\ g_lock = "main"
  /\ p_pc = "apply"
  /\ \E k \in 1..Len(m_loc.rows) :
       /\ m_loc.rows[k].addr = p_obs[1].addr
       /\ \E i \in TrackSlots : g_tracks[i].in_use /\ g_tracks[i].index = m_loc.rows[k].index

\* the Placemarks of document doc whose description names kind and mac
PlacemarksOf(doc, kind, mac) ==
  {k \in 1..Len(doc) : doc[k].description[1] = <<"Kind", kind>>
                       /\ doc[k].description[2] = <<"MAC", mac>>}

AppleBytes(dev) ==
  IF dev.mfg # NoMfg /\ Len(dev.mfg[1]) >= 2 /\ dev.mfg[1][1] = 76 /\ dev.mfg[1][2] = 0
    THEN <<SubSeq(dev.mfg[1], 3, Len(dev.mfg[1]))>> ELSE <<>>
Starts1219(dev) ==
  /\ AppleBytes(dev) # <<>>
  /\ Len(AppleBytes(dev)[1]) >= 2
  /\ AppleBytes(dev)[1][1] = 18
  /\ AppleBytes(dev)[1][2] = 25
Byte3Is(dev, m) ==
  /\ Starts1219(dev)
  /\ Len(AppleBytes(dev)[1]) >= 3
  /\ \E hi \in 0..7, lo \in 0..7 : AppleBytes(dev)[1][3] = 32 * hi + m + lo
ClassifierRows(dev) ==
  << <<"FEED" \in dev.services, "Tile", 95>>,
     <<"FD5A" \in dev.services, "SmartThingsTracker", 95>>,
     <<"FD69" \in dev.services, "SmartThingsFind", 90>>,
     <<"FEAA" \in dev.services, "GoogleFindHub", 90>>,
     <<"FA25" \in dev.services, "PebbleBee", 90>>,
     <<Byte3Is(dev, 24), "AppleAirPods", 85>>,
     <<Byte3Is(dev, 16) /\ "FE33" \in dev.services, "AppleFindMy", 80>>,
     <<Byte3Is(dev, 16), "AppleAirTag", 75>>,
     <<Starts1219(dev), "AppleFindMy", 65>>,
     <<"FE33" \in dev.services, "Chipolo", 80>>,
     <<TRUE, "Unknown", 0>> >>

\* C22: for every advertisement the observation made from it carries the
\* type and the confidence of the first row of the classifier table that
\* matches it.
C22_InspectFirstMatch ==
  cb["ble"] # NoObs
    => LET rows == ClassifierRows(h_aux)
           k == CHOOSE i \in 1..Len(rows) : rows[i][1] /\ \A j \in 1..(i - 1) : ~rows[j][1]
       IN /\ cb["ble"][1].tracker_type = rows[k][2]
          /\ cb["ble"][1].tracker_confidence = rows[k][3]

\* an advertisement listing 0xFE33 and 0xFEAA with an Apple payload
\* 0x12 0x19 0x19 was classified
C22_Witness ==
  /\ cb["ble"] # NoObs
  /\ h_aux.services = {"FE33", "FEAA"}
  /\ h_aux.mfg = <<<<76, 0, 18, 25, 25>>>>
  /\ cb["ble"][1].tracker_type = "GoogleFindHub"

\* C23: every row of a snapshot has a score within [0, 100] (0..10000
\* hundredths) and every anchor row has score 0, also for a track whose
\* last_seen_s is below its first_seen_s or whose env_hits exceeds
\* move_segments.
C23_ScoreInRange ==
  \A k \in 1..Len(ui_items) :
    /\ ui_items[k].score \in 0..10000
    /\ ui_items[k].kind = "WifiAp" => ui_items[k].score = 0

\* a snapshot was taken with a row for a track whose last_seen_s is below its
\* first_seen_s and whose env_hits exceeds move_segments, beside an anchor row
C23_Witness ==
  /\ last = "snapshot"
  /\ \E i \in TrackSlots :
       /\ g_tracks[i].in_use
       /\ g_tracks[i].last_seen_s < g_tracks[i].first_seen_s
       /\ g_tracks[i].env_hits > g_seg.move_segments
       /\ \E k \in 1..Len(ui_items) : /\ ui_items[k].index = g_tracks[i].index
                                      /\ ui_items[k].kind = g_tracks[i].kind
                                      /\ ui_items[k].score > 0
  /\ \E k \in 1..Len(ui_items) : ui_items[k].kind = "WifiAp"

\* what C24 says of one call on table tb (tb2 after process_observation)
\* whose matching in-use slots are match: ret is the table the call returns
AllocAsClaimed(tb, tb2, ret, slots, match, nextIndex) ==
  LET free == {i \in slots : ~tb[i].in_use}
      cand == {i \in slots : tb[i].in_use /\ ~HasFlag(tb[i].flags, "Watching")}
      handedOut(s) == /\ tb2[s].in_use
                      /\ tb2[s].index = nextIndex
                      /\ \A j \in slots \ {s} : tb2[j] = tb[j]
  IN IF match # {}
       THEN /\ ret = tb
            /\ \A j \in slots \ match : tb2[j] = tb[j]
            /\ \A j \in match : /\ tb2[j].index = tb[j].index
                                /\ tb2[j].flags \cap {"Watching"} = tb[j].flags \cap {"Watching"}
     ELSE IF free # {}
       THEN handedOut(FirstSlot(free))
     ELSE IF cand # {}
       THEN \E s \in cand : /\ \A j \in cand : tb[s].last_seen_s <= tb[j].last_seen_s
                            /\ handedOut(s)
     ELSE tb2 = tb

\* C24: find_or_alloc_track and find_or_alloc_anchor return a matching in-use
\* slot with no field changed; without a match they hand out the first free
\* slot; only with no free slot do they evict, and then the in-use,
\* non-Watching slot with the smallest last_seen_s.
C24_FirstFreeElseOldest ==
  [][(p_pc = "apply" /\ p_pc' = "segment")
     => \E o \in {p_obs[1]} :
          IF o.kind = "WifiApBeacon"
            THEN /\ AllocAsClaimed(g_anchors, g_anchors',
                                   find_or_alloc_anchor(g_anchors, g_next_index, o.addr, o.ts_s).anchors,
                                   AnchorSlots,
                                   {i \in AnchorSlots : g_anchors[i].in_use /\ g_anchors[i].addr = o.addr},
                                   g_next_index)
                 /\ g_tracks' = g_tracks
            ELSE \E tk \in {IF o.kind = "BleAdv" THEN "BleAdv" ELSE "WifiClient"} :
                 /\ AllocAsClaimed(g_tracks, g_tracks',
                                   find_or_alloc_track(g_tracks, g_next_index, g_seg.segment_id,
                                                       tk, o.addr, o.ts_s).tracks,
                                   TrackSlots,
                                   {i \in TrackSlots : /\ g_tracks[i].in_use
                                                       /\ g_tracks[i].kind = tk
                                                       /\ g_tracks[i].addr = o.addr},
                                   g_next_index)
                 /\ g_anchors' = g_anchors]_vars

\* the second track slot was evicted for a new device while the first held
\* an unwatched track seen later
C24_Witness ==
  /\ last = "evict"
  /\ g_tracks[2].in_use
  /\ NextIndexAfter(g_tracks[2].index) = g_next_index
  /\ g_tracks[1].in_use
  /\ ~HasFlag(g_tracks[1].flags, "Watching")
  /\ g_tracks[1].last_seen_s > 0

\* C25: a track slot handed out for an unknown (kind, addr), free or evicted,
\* carries nothing of its previous occupant: as find_or_alloc_track returns
\* it, it has flags None, the next index, first_seen_s = last_seen_s = ts_s,
\* the current segment_id, env_hits = 1 and the initial value of every other
\* field; after process_observation its flags, position and tracker fields
\* are those of the observation alone.
C25_FreshTrackSlot ==
  [][(p_pc = "apply" /\ p_pc' = "segment" /\ last' \in {"free", "evict"}
        /\ p_obs[1].kind # "WifiApBeacon")
     => \E o \in {p_obs[1]} :
        \E r \in {find_or_alloc_track(g_tracks, g_next_index, g_seg.segment_id,
                                      IF o.kind = "BleAdv" THEN "BleAdv" ELSE "WifiClient",
                                      o.addr, o.ts_s)} :
          /\ r.tracks[r.slot]
               = [in_use |-> TRUE, kind |-> IF o.kind = "BleAdv" THEN "BleAdv" ELSE "WifiClient",
                  addr |-> o.addr, flags |-> {}, index |-> g_next_index,
                  first_seen_s |-> o.ts_s, last_seen_s |-> o.ts_s,
                  last_window |-> 0, seen_windows |-> 0, near_windows |-> 0,
                  ema_rssi |-> -10000, ema_abs_dev |-> 0,
                  last_segment_id |-> g_seg.segment_id, env_hits |-> 1, crowd_ema |-> 0,
                  last_geo_s |-> 0, last_lat |-> 0, last_lon |-> 0,
                  tracker_type |-> "Unknown", tracker_google_mfr |-> "Unknown",
                  tracker_samsung_subtype |-> "Unknown", tracker_confidence |-> 0]
          /\ g_tracks'[r.slot].index = g_next_index
          /\ g_tracks'[r.slot].flags = IF g_gps.valid THEN {"HasGeo"} ELSE {}
          /\ g_tracks'[r.slot].first_seen_s = o.ts_s
          /\ g_tracks'[r.slot].last_seen_s = o.ts_s
          /\ g_tracks'[r.slot].env_hits = 1
          /\ g_tracks'[r.slot].last_segment_id = g_seg.segment_id
          /\ g_tracks'[r.slot].seen_windows <= 1
          /\ g_tracks'[r.slot].tracker_type = o.tracker_type
          /\ g_tracks'[r.slot].tracker_confidence = o.tracker_confidence
          /\ <<g_tracks'[r.slot].last_lat, g_tracks'[r.slot].last_lon>>
               = IF g_gps.valid THEN <<g_gps.lat, g_gps.lon>> ELSE <<0, 0>>]_vars

\* a probe request took, by eviction, the slot of the classified tag MacB,
\* which had a position (the other slot holds advertiser MacA)
C25_Witness ==
  /\ last = "evict"
  /\ \E i \in TrackSlots :
       /\ g_tracks[i].in_use
       /\ g_tracks[i].kind = "WifiClient"
       /\ NextIndexAfter(g_tracks[i].index) = g_next_index
       /\ g_tracks[i].tracker_type = "Unknown"
       /\ \A j \in TrackSlots \ {i} : /\ g_tracks[j].in_use
                                       /\ g_tracks[j].kind = "BleAdv"
                                       /\ g_tracks[j].addr = MacA
  /\ g_gps.valid

\* C26: no two in-use track slots have the same (kind, addr) and no two
\* in-use anchor slots have the same addr.
C26_UniqueKeys ==
  /\ \A i, j \in TrackSlots :
       (i # j /\ g_tracks[i].in_use /\ g_tracks[j].in_use)
         => <<g_tracks[i].kind, g_tracks[i].addr>> # <<g_tracks[j].kind, g_tracks[j].addr>>
  /\ \A i, j \in AnchorSlots :
       (i # j /\ g_anchors[i].in_use /\ g_anchors[j].in_use)
         => g_anchors[i].addr # g_anchors[j].addr

\* the watch list naming tag MacB twice was loaded into one slot, and an
\* eviction has since filled the other slot anew
C26_Witness ==
  /\ fs_watchlist = FileDup
  /\ last = "evict"
  /\ \E i, j \in TrackSlots :
       /\ i # j
       /\ g_tracks[i].in_use /\ g_tracks[i].addr = MacB /\ g_tracks[i].kind = "BleAdv"
       /\ HasFlag(g_tracks[i].flags, "Watching")
       /\ g_tracks[j].in_use

\* C27: after the first observation of an unknown address, at any ts_s, the
\* new track has seen_windows = 1, and near_windows = 1 exactly when the
\* rssi is at least RSSI_NEAR_DBM (else 0).
C27_FirstObservationCounted ==
  [][(p_pc = "apply" /\ p_pc' = "segment" /\ last' \in {"free", "evict"}
        /\ p_obs[1].kind # "WifiApBeacon")
     => \E o \in {p_obs[1]} :
        \E i \in TrackSlots :
          /\ g_tracks'[i].in_use
          /\ g_tracks'[i].index = g_next_index
          /\ g_tracks'[i].addr = o.addr
          /\ g_tracks'[i].seen_windows = 1
          /\ g_tracks'[i].near_windows = IF o.rssi_dbm >= RSSI_NEAR_DBM THEN 1 ELSE 0]_vars

\* C28: the env_hits of a track changes only when process_observation
\* applies an observation of it, by exactly 1, and only when segment_id
\* differs from the track's last_segment_id, which then becomes segment_id;
\* last_segment_id never changes without that count.
C28_EnvHitsOncePerSegment ==
  [][\A i \in TrackSlots :
       (g_tracks[i].in_use /\ g_tracks'[i].in_use /\ g_tracks'[i].index = g_tracks[i].index)
         => /\ (g_tracks'[i].env_hits # g_tracks[i].env_hits)
                 => /\ p_pc = "apply" /\ p_pc' = "segment"
                    /\ p_obs[1].addr = g_tracks[i].addr
                    /\ g_tracks'[i].env_hits = g_tracks[i].env_hits + 1
                    /\ g_tracks[i].last_segment_id # g_seg.segment_id
                    /\ g_tracks'[i].last_segment_id = g_seg.segment_id
            /\ (g_tracks'[i].last_segment_id # g_tracks[i].last_segment_id)
                 => g_tracks'[i].env_hits = g_tracks[i].env_hits + 1
            /\ (p_pc = "apply" /\ g_tracks[i].last_segment_id = g_seg.segment_id)
                 => g_tracks'[i].env_hits = g_tracks[i].env_hits]_vars

\* the tag was seen in the first segment, counted once more in the second,
\* and a further observation in the second segment has just been applied
C28_Witness ==
  /\ last = "found"
  /\ g_seg.segment_id = 2
  /\ obs_left = 0
  /\ g_obs_q = <<>>
  /\ cb["ble"] = NoObs
  /\ fs_watchlist = FileAbsent
  /\ \E i \in TrackSlots : /\ g_tracks[i].in_use
                           /\ g_tracks[i].env_hits = 2
                           /\ g_tracks[i].last_segment_id = 2
                           /\ g_tracks[i].index = 1
                           /\ g_tracks[i].ema_rssi = Ema02(Ema02(Ema02(-10000, -6000), -6000), -6000)

\* C29: once reset() has returned, no observation produced before reset()
\* was called creates or updates a table slot, whether it was still in the
\* queue or already taken out of it by processing_task.
C29_ResetDropsOldObservations ==
  [][(ui_left = 0 /\ m_pc = "loop" /\ p_pc = "apply" /\ p_pc' = "segment")
     => /\ g_tracks' = g_tracks
        /\ g_anchors' = g_anchors]_vars

\* the in-use slot e is the entity row was made from
RowIsEntity(row, e, kind) == kind = row.kind /\ e.addr = row.addr

\* C30: indices are assigned monotonically, so an index once given to one
\* entity is never later given to a different (kind, addr): no in-use slot
\* carries the index of a row of the snapshot the UI keeps unless it is that
\* row's entity, and the 'w' key on such a row changes the flags of no other
\* entity.
C30_IndexNeverReused ==
  [][/\ \A k \in 1..Len(ui_items') :
          /\ \A i \in TrackSlots :
               (g_tracks'[i].in_use /\ g_tracks'[i].index = ui_items'[k].index)
                 => RowIsEntity(ui_items'[k], g_tracks'[i], g_tracks'[i].kind)
          /\ \A i \in AnchorSlots :
               (g_anchors'[i].in_use /\ g_anchors'[i].index = ui_items'[k].index)
                 => RowIsEntity(ui_items'[k], g_anchors'[i], "WifiAp")
     /\ (last' \in {"watch", "unwatch"})
          => \A k \in 1..Len(ui_items) :
               ui_items'[k] # ui_items[k]
                 => /\ \A i \in TrackSlots :
                         g_tracks'[i] # g_tracks[i]
                           => RowIsEntity(ui_items[k], g_tracks[i], g_tracks[i].kind)
                    /\ \A i \in AnchorSlots :
                         g_anchors'[i] # g_anchors[i]
                           => RowIsEntity(ui_items[k], g_anchors[i], "WifiAp")]_vars

\* C31: a segmentation evaluation made while the GNSS fix is valid leaves
\* the stored fingerprint and last_env_tick_s unchanged, and changes
\* segment_id and move_segments only by the GNSS rule (a stored anchor at
\* least 10 s old and at least 50 m from the fix), whatever the fingerprints
\* are; when no anchor is stored (never stored, or cleared by
\* setGpsFix(false, ...) or reset()) it stores the fix as the anchor and
\* leaves both counters unchanged, whatever the distance from the old anchor.
C31_GnssModeOnly ==
  [][(p_pc = "segment" /\ p_pc' = "expire" /\ g_gps.valid)
     => /\ g_seg'.last_fp = g_seg.last_fp
        /\ g_seg'.last_env_tick_s = g_seg.last_env_tick_s
        /\ (g_seg'.segment_id # g_seg.segment_id \/ g_seg'.move_segments # g_seg.move_segments)
             => /\ g_seg.gps_anchor_valid
                /\ now - g_seg.last_gps_seg_s >= 10
                /\ g_gps.lon = g_seg.gps_anchor_lon
                /\ Abs(g_gps.lat - g_seg.gps_anchor_lat) >= SEG_DIST_NANO
        /\ ~g_seg.gps_anchor_valid
             => /\ g_seg'.gps_anchor_valid
                /\ GpsAnchorOf(g_seg') = [lat |-> g_gps.lat, lon |-> g_gps.lon]
                /\ g_seg'.last_gps_seg_s = now
                /\ g_seg'.segment_id = g_seg.segment_id
                /\ g_seg'.move_segments = g_seg.move_segments]_vars

\* a fingerprint evaluation at 1 s stored the empty fingerprint, an access
\* point has been seen since, the anchor FixA was stored and then cleared,
\* and the evaluation at 31 s, with the fix SegFar 50 m away and a
\* fingerprint unlike the stored one, has only stored the anchor
C31_Witness ==
  /\ p_pc = "expire"
  /\ now = 31
  /\ g_gps = [valid |-> TRUE, lat |-> SegFar.lat, lon |-> SegFar.lon]
  /\ g_seg.gps_anchor_valid
  /\ GpsAnchorOf(g_seg) = SegFar
  /\ g_seg.last_gps_seg_s = 31
  /\ g_seg.last_env_tick_s = 1
  /\ g_seg.last_fp = FpDefault
  /\ build_fingerprint(g_anchors, now) # FpDefault
  /\ fp_similarity(build_fingerprint(g_anchors, now), g_seg.last_fp) < FP_SIMILARITY_MIN
  /\ g_seg.segment_id = 1
  /\ g_seg.move_segments = 0
  /\ ui_left = 0

\* the largest tracker_confidence among the observations of seq for BLE
\* address addr, and c0 when it is larger or there is none
RECURSIVE MaxConfidence(_, _, _)
MaxConfidence(seq, addr, c0) ==
  IF seq = <<>> THEN c0
  ELSE MaxConfidence(Tail(seq), addr,
                     IF Head(seq).kind = "BleAdv" /\ Head(seq).addr = addr
                       THEN Max2(c0, Head(seq).tracker_confidence) ELSE c0)

\* the tracker_confidence the watch list read at boot gave the slot of BLE
\* address addr, 0 when it named no such tag
RestoredConfidence(addr) ==
  LET r == readWatchlist(fs_watchlist, [i \in TrackSlots |-> TrackDefault],
                         [i \in AnchorSlots |-> AnchorDefault], 1, 0)
      m == TrackMatches(r.tracks, "BleAdv", addr)
  IN IF m = {} THEN 0 ELSE r.tracks[FirstSlot(m)].tracker_confidence

\* tracker_type, tracker_google_mfr and tracker_samsung_subtype of slot t
\* that are known stay known in t2, and tracker_confidence is not smaller
KeepsKnown(t, t2) ==
  /\ t2.tracker_confidence >= t.tracker_confidence
  /\ t.tracker_type # "Unknown" => t2.tracker_type # "Unknown"
  /\ t.tracker_google_mfr # "Unknown" => t2.tracker_google_mfr # "Unknown"
  /\ t.tracker_samsung_subtype # "Unknown" => t2.tracker_samsung_subtype # "Unknown"

\* an observation of BLE address addr is among seq
ObservedIn(seq, addr) == \E k \in 1..Len(seq) : seq[k].kind = "BleAdv" /\ seq[k].addr = addr

\* C32 as stated: over the lifetime of a BLE track slot tracker_confidence
\* never decreases and, once an observation of its address has been
\* processed, equals the largest confidence among the BleAdv observations of
\* its address processed so far, and tracker_type, tracker_google_mfr and
\* tracker_samsung_subtype never go from a known value to Unknown.
C32_ConfidenceIsMaxObserved ==
  [][\A i \in TrackSlots :
       /\ (g_tracks'[i].in_use /\ g_tracks'[i].kind = "BleAdv"
             /\ ObservedIn(h_applied', g_tracks'[i].addr))
            => g_tracks'[i].tracker_confidence = MaxConfidence(h_applied', g_tracks'[i].addr, 0)
       /\ (g_tracks[i].in_use /\ g_tracks'[i].in_use /\ g_tracks'[i].index = g_tracks[i].index)
            => KeepsKnown(g_tracks[i], g_tracks'[i])]_vars

\* C32, amended: the same with tracker_confidence equal to the largest of
\* the confidences observed so far and the value the slot was created with,
\* which is 0 for a slot created by an observation and the watch list's
\* tracker_confidence for a slot created by readWatchlist.
C32_ConfidenceMonotone ==
  [][\A i \in TrackSlots :
       /\ (g_tracks'[i].in_use /\ g_tracks'[i].kind = "BleAdv")
            => g_tracks'[i].tracker_confidence
                 = MaxConfidence(h_applied', g_tracks'[i].addr, RestoredConfidence(g_tracks'[i].addr))
       /\ (g_tracks[i].in_use /\ g_tracks'[i].in_use /\ g_tracks'[i].index = g_tracks[i].index)
            => KeepsKnown(g_tracks[i], g_tracks'[i])]_vars

\* tag MacB, restored from the watch list as an AirTag with confidence 75,
\* has been seen as a Motorola Find Hub tag with confidence 40, as a
\* SmartThings tag with confidence 90 and last with nothing recognised: it
\* keeps the type and maker last recognised and the confidence 90
C32_Witness ==
  /\ fs_watchlist = FileTag
  /\ Len(h_applied) = 3
  /\ \A k \in 1..3 : h_applied[k].addr = MacB
  /\ h_applied[1].tracker_confidence = 40
  /\ h_applied[2].tracker_confidence = 90
  /\ h_applied[3].tracker_confidence = 0
  /\ \E i \in TrackSlots :
       /\ g_tracks[i].in_use /\ g_tracks[i].addr = MacB
       /\ g_tracks[i].tracker_confidence = 90
       /\ g_tracks[i].tracker_type = "SmartThingsFind"
       /\ g_tracks[i].tracker_google_mfr = "Motorola"

\* the positions in h_applied of the observations of access point addr
\* that were processed with a valid fix
GeoPasses(addr) ==
  {k \in 1..Len(h_applied) :
     /\ h_applied[k].obs.kind \in {"WifiApBeacon", "WifiApProbeResp"}
     /\ h_applied[k].obs.addr = addr
     /\ h_applied[k].gps.valid}

\* C33: an anchor created by an observation has HasGeo exactly if one of
\* its observations was processed while the fix was valid, and then
\* best_rssi is the largest rssi among those observations and best_lat,
\* best_lon are the fix of the first of them that had that rssi.
C33_BestPass ==
  \A i \in AnchorSlots :
    g_anchors[i].in_use
      => LET a == g_anchors[i]
             P == GeoPasses(a.addr)
             strongest == {k \in P : \A j \in P : h_applied[k].obs.rssi_dbm >= h_applied[j].obs.rssi_dbm}
             first == FirstSlot(strongest)
         IN /\ HasFlag(a.flags, "HasGeo") <=> P # {}
            /\ P # {} => /\ a.best_rssi = h_applied[first].obs.rssi_dbm
                          /\ a.best_lat = h_applied[first].gps.lat
                          /\ a.best_lon = h_applied[first].gps.lon

\* access point MacA was seen without a fix, then near at FixA and near
\* again at FixB: its best pass is the one at FixA
C33_Witness ==
  /\ Len(h_applied) = 3
  /\ ~h_applied[1].gps.valid
  /\ h_applied[2].gps = [valid |-> TRUE, lat |-> FixA.lat, lon |-> FixA.lon]
  /\ h_applied[3].gps = [valid |-> TRUE, lat |-> FixB.lat, lon |-> FixB.lon]
  /\ h_applied[2].obs.rssi_dbm = -60
  /\ h_applied[3].obs.rssi_dbm = -60
  /\ \E i \in AnchorSlots :
       /\ g_anchors[i].in_use /\ g_anchors[i].addr = MacA
       /\ HasFlag(g_anchors[i].flags, "HasGeo")
       /\ g_anchors[i].best_rssi = -60
       /\ g_anchors[i].best_lat = FixA.lat
       /\ g_anchors[i].last_lat = FixB.lat

\* txt is exactly 17 characters: six pairs of upper-case hexadecimal digits
\* with ':' between them
StrictMac(txt) ==
  /\ Len(txt) = 17
  /\ \A k \in 1..17 :
       IF k % 3 = 0 THEN txt[k] = ":" ELSE \E h \in 1..16 : HexChars[h] = txt[k]
\* txt is exactly one of "WifiAp", "WifiClient", "BleAdv"
StrictKind(txt) == txt \in {sWifiAp, sWifiClient, sBleAdv}
\* document f without the items whose mac or kind is not of that form
StrictOnly(f) ==
  [f EXCEPT !.items = SelectSeq(@, LAMBDA it : /\ it.object
                                               /\ IsSome(it.kind) /\ IsSome(it.mac)
                                               /\ StrictKind(Val(it.kind))
                                               /\ StrictMac(Val(it.mac)))]

\* C34: readWatchlist applies an item only if its mac is exactly 17
\* characters of upper-case hexadecimal byte pairs separated by ':' and its
\* kind is exactly "WifiAp", "WifiClient" or "BleAdv": the tables after the
\* call are those of reading the document without every other item.
C34_StrictMacAndKind ==
  [][(m_pc = "begin_read" /\ m_pc' = "begin_start")
     => LET r == readWatchlist(StrictOnly(fs_watchlist), g_tracks, g_anchors, g_next_index, now)
        IN /\ g_tracks' = r.tracks
           /\ g_anchors' = r.anchors
           /\ g_next_index' = r.next_index
           /\ m_loc'.ret = r.ok]_vars

\* item it of a watch list names a kind and an address readWatchlist accepts
ItemAccepted(it) ==
  /\ it.object /\ IsSome(it.kind) /\ IsSome(it.mac)
  /\ parseKind(Val(it.kind))[1] /\ ParseMacOk(Val(it.mac))
\* it carries both lat and lon
ItemHasGeo(it) == IsSome(it.lat) /\ IsSome(it.lon)
\* slot e holds the position of item it
HoldsItemGeo(e, lat, lon, it) ==
  /\ HasFlag(e.flags, "HasGeo")
  /\ lat = ReadCoord(Val(it.lat))
  /\ lon = ReadCoord(Val(it.lon))

\* C35: after readWatchlist every entity an applied item with lat and lon
\* names has HasGeo set and the item's coordinates (those of the last such
\* item when the file names the entity more than once), anchors in
\* best_lat, best_lon and tracks in last_lat, last_lon, whether the load
\* allocated the entity or found it in the table.
C35_ItemGeoApplied ==
  [][(m_pc = "begin_read" /\ m_pc' = "begin_start" /\ fs_watchlist.state = "doc")
     => LET items == fs_watchlist.items
        IN \A k \in 1..Len(items) :
             (/\ ItemAccepted(items[k]) /\ ItemHasGeo(items[k])
              /\ \A j \in (k + 1)..Len(items) :
                    ~(items[j].kind = items[k].kind /\ items[j].mac = items[k].mac
                      /\ ItemHasGeo(items[j])))
             => LET ek == parseKind(Val(items[k].kind))[2]
                    mac == ParseMacValue(Val(items[k].mac))
                IN IF ek = "WifiAp"
                     THEN \A i \in AnchorSlots :
                            (g_anchors'[i].in_use /\ g_anchors'[i].addr = mac)
                              => HoldsItemGeo(g_anchors'[i], g_anchors'[i].best_lat,
                                              g_anchors'[i].best_lon, items[k])
                     ELSE \A i \in TrackMatches(g_tracks', ek, mac) :
                            HoldsItemGeo(g_tracks'[i], g_tracks'[i].last_lat,
                                         g_tracks'[i].last_lon, items[k])]_vars

\* C36: segment_id = move_segments + 1 whenever maybe_advance_segment and
\* reset() are not between their two writes of the counters, also when
\* reset() runs on the main task while processing_task is inside
\* maybe_advance_segment.
C36_CountersInStep ==
  (p_pc # "ms_move_segments" /\ m_pc # "rs_move_segments")
    => g_seg.segment_id = g_seg.move_segments + 1

\* C37: every in-use track has env_hits <= move_segments + 1 and
\* last_segment_id <= segment_id, also a Watching track that reset() kept.
C37_HitsWithinSegments ==
  \A i \in TrackSlots :
    g_tracks[i].in_use
      => /\ g_tracks[i].env_hits <= g_seg.move_segments + 1
         /\ g_tracks[i].last_segment_id <= g_seg.segment_id

\* an item of document f names the entity of anchor slot a
NamesAnchor(f, a) ==
  \E k \in 1..Len(f.items) :
    /\ ItemAccepted(f.items[k])
    /\ parseKind(Val(f.items[k].kind))[2] = "WifiAp"
    /\ ParseMacValue(Val(f.items[k].mac)) = a.addr
\* an item of document f names the entity of track slot t
NamesTrack(f, t) ==
  \E k \in 1..Len(f.items) :
    /\ ItemAccepted(f.items[k])
    /\ parseKind(Val(f.items[k].kind))[2] = t.kind
    /\ ParseMacValue(Val(f.items[k].mac)) = t.addr

\* C38: readWatchlist never evicts or overwrites an entity: every slot in
\* use before the call holds the same (kind, addr) and index after it, with
\* the same flags unless an item names it (then Watching is added); every
\* other slot in use after the call was free before it and holds an entity
\* an item names; so an item for an address that is not in a table without
\* a free slot changes nothing.
C38_ReadNeverEvicts ==
  [][(m_pc = "wl_read" /\ m_pc' = "wl_done")
     => /\ \A i \in TrackSlots :
             IF g_tracks[i].in_use
               THEN /\ g_tracks'[i].in_use
                    /\ g_tracks'[i].kind = g_tracks[i].kind
                    /\ g_tracks'[i].addr = g_tracks[i].addr
                    /\ g_tracks'[i].index = g_tracks[i].index
                    /\ g_tracks'[i].flags =
                         IF NamesTrack(fs_watchlist, g_tracks[i])
                           THEN SetFlag(g_tracks[i].flags, "Watching") ELSE g_tracks[i].flags
             ELSE g_tracks'[i].in_use => NamesTrack(fs_watchlist, g_tracks'[i])
        /\ \A i \in AnchorSlots :
             IF g_anchors[i].in_use
               THEN /\ g_anchors'[i].in_use
                    /\ g_anchors'[i].addr = g_anchors[i].addr
                    /\ g_anchors'[i].index = g_anchors[i].index
                    /\ g_anchors'[i].flags =
                         IF NamesAnchor(fs_watchlist, g_anchors[i])
                           THEN SetFlag(g_anchors[i].flags, "Watching") ELSE g_anchors[i].flags
             ELSE g_anchors'[i].in_use => NamesAnchor(fs_watchlist, g_anchors'[i])]_vars

\* both tables were full of entities of MacA, none of them watched, and a
\* watch list naming access point MacB and tag MacB has been read: the
\* tables are as they were
C38_Witness ==
  /\ m_pc = "wl_done"
  /\ Len(fs_watchlist.items) = 2
  /\ fs_watchlist.items[1].kind = Some(sWifiAp)
  /\ fs_watchlist.items[2].kind = Some(sBleAdv)
  /\ \A k \in 1..2 : fs_watchlist.items[k].mac = Some(macToString(MacB))
  /\ \A i \in TrackSlots : saved.tracks[i].in_use /\ ~Watched(saved.tracks[i])
  /\ \A i \in AnchorSlots : saved.anchors[i].in_use /\ ~Watched(saved.anchors[i])
  /\ g_tracks = saved.tracks
  /\ g_anchors = saved.anchors

\* call record loc of the task named task, at pc, is about to return having
\* entered the critical section n times and left it as often, the lock not
\* held by the task
ReturnsBalanced(task, pc, loc, n) ==
  (pc = "call" /\ Head(loc.todo) = "return")
    => /\ loc.acq = n
       /\ loc.rel = n
       /\ g_lock # task
\* the task enters only when it is not inside, and leaves only when it is
NoNesting(task, pc, loc) ==
  /\ (pc = "call" /\ Head(loc.todo) = "enter") => g_lock # task
  /\ (pc = "call" /\ Head(loc.todo) = "exit") => g_lock = task

\* C39 as stated: on every path of updateEntity, expire_tables,
\* process_observation, setGpsFix, reset, buildSnapshot and readWatchlist
\* g_lock is acquired exactly once and released exactly once before the
\* function returns, and never acquired by a task that holds it.
C39_LockOncePerCall ==
  /\ ReturnsBalanced("proc", p_pc, p_loc, 1)
  /\ ReturnsBalanced("main", m_pc, m_loc, 1)
  /\ NoNesting("proc", p_pc, p_loc)
  /\ NoNesting("main", m_pc, m_loc)

\* C39, amended: the same, except that readWatchlist neither acquires nor
\* releases g_lock on the paths that return false before the items are read
\* (file absent, empty, not JSON, no items array).
C39_LockBalanced ==
  /\ ReturnsBalanced("proc", p_pc, p_loc, 1)
  /\ ReturnsBalanced("main", m_pc, m_loc,
                     IF m_loc.fn = "readWatchlist" /\ fs_watchlist.state # "doc" THEN 0 ELSE 1)
  /\ NoNesting("proc", p_pc, p_loc)
  /\ NoNesting("main", m_pc, m_loc)

\* updateEntity is about to return after finding no slot with the row's
\* index, the entity having gone since the snapshot; it has entered and
\* left the critical section once
C39_Witness ==
  /\ m_pc = "call"
  /\ m_loc.fn = "updateEntity"
  /\ m_loc.path = "none"
  /\ m_loc.todo = <<"return">>
  /\ m_loc.acq = 1
  /\ m_loc.rel = 1
  /\ g_lock # "main"

\* the elements of the list starting at byte p of the payload that lie
\* entirely within the first len bytes, as the byte offsets they start at
RECURSIVE IesWithin(_, _, _)
IesWithin(payload, len, p) ==
  IF p + 2 <= len /\ p + 2 + payload[p + 2] <= len
    THEN <<p>> \o IesWithin(payload, len, p + 2 + payload[p + 2])
  ELSE <<>>
\* those of them with id 0
SsidIes(payload, len, p) ==
  SelectSeq(IesWithin(payload, len, p), LAMBDA q : payload[q + 1] = 0)
\* x is the body of the first of them, cut to 32 bytes, or empty
IsFirstSsid(x, payload, len, p) ==
  LET ies == SsidIes(payload, len, p)
  IN IF ies = <<>> THEN x.out_len = 0
     ELSE LET q == Head(ies)
              l == payload[q + 2]
          IN /\ x.out_len = (IF l > 32 THEN 32 ELSE l)
             /\ x.out_ssid = SubSeq(payload, q + 3, q + 2 + x.out_len)

\* C40: for every payload and every len, extract_ssid_ie terminates,
\* reads no payload byte at an index >= len, returns out_len <= 32, and
\* returns the first element with id 0 that lies entirely within the frame
\* (out_len 0 when there is none or it is empty).
C40_SsidWithinFrame ==
  (h_aux.out # <<>> /\ h_aux.out[1].called)
    => LET f == h_aux.frame
           x == h_aux.out[1].ssid
       IN /\ x.returned
          /\ \A k \in x.reads : 0 <= k /\ k < f.len
          /\ x.out_len <= 32
          /\ Len(x.out_ssid) = x.out_len
          /\ IsFirstSsid(x, f.payload, f.len, h_aux.out[1].ie_start)

\* a beacon cut inside its second SSID element: the first one, 33 bytes
\* behind another element, is returned cut to 32
C40_Witness ==
  /\ h_aux.out # <<>>
  /\ h_aux.out[1].called
  /\ h_aux.out[1].kind = "WifiApBeacon"
  /\ h_aux.frame.len = Len(h_aux.frame.payload) - 1
  /\ SubSeq(h_aux.frame.payload, 37, 41) = <<1, 1, 9, 0, 33>>
  /\ h_aux.out[1].ssid.out_len = 32
  /\ h_aux.out[1].ssid.out_ssid = IeBody(32)

=============================================================================
